---- MODULE Spec2Model ----
(***************************************************************************)
(* World Music Lab: the file-analysis pipeline of src/src/index.js and the *)
(* service worker of src/unnamed/part_000.                                 *)
(*                                                                         *)
(* Spec         the orchestrator analyzeAudioFile, one process per run,    *)
(*              stepping from one await to the next (JavaScript runs each  *)
(*              continuation to completion), together with the cancel      *)
(*              button and the module-level state the runs share.          *)
(* SpecScore    the culture scorer of displayMusicalInsights applied to    *)
(*              rhythm profiles, scale names and culture tables.           *)
(* SpecMatch    that scorer and the scorer of analyzeRecording on the      *)
(*              same rhythm analysis and table.                            *)
(* SpecTempo    the tempo rules of both scorers for every tempo.           *)
(* SpecSummary  displayPitchAnalysis and the pitch section of the report.  *)
(* SpecSW       the service worker: install, activate, fetch, the caches.  *)
(* SpecSpectrum the spectral features computed by analyzeSpectrum.         *)
(* SpecPage     the results page after an analysis: the download controls *)
(*              and the teacher dashboard.                                 *)
(* SpecUpload   the change listener of the file input and                  *)
(*              decodeAudioBuffer, one process per file selection.         *)
(* SpecQuiz     the quizzes of initializeQuiz and initializeExtendedQuiz.  *)
(***************************************************************************)
EXTENDS Integers, Sequences, FiniteSets, TLC

\* ------------------------------------------------------------------------
\* Bounds
\* ------------------------------------------------------------------------
\* number of analysis runs (file selections) in one behaviour
MaxRuns == 2

Runs == 1..MaxRuns

\* length of the culture table handed to the scorer
MaxCultures == 7

\* ------------------------------------------------------------------------
\* Program constants of analyzeAudioFile
\* ------------------------------------------------------------------------
maxDurationSec == 15
sampleSize == 4096
pitchStrideFactor == 64
maxFrames == 20
yieldEvery == 5

\* Program constants of analyzeSpectrum
fftSize == 2048
spectrumStrideFactor == 32
maxWindows == 50

Min(a, b) == IF a < b THEN a ELSE b
Max(a, b) == IF a > b THEN a ELSE b
Range(f) == {f[x] : x \in DOMAIN f}

\* ------------------------------------------------------------------------
\* Audio data.  A Float32Array is represented by the half-open range
\* [from, to) of sample indices of the decoded channel that it holds, in
\* order: sample k of the channel keeps its identity k through every copy.
\* ------------------------------------------------------------------------
\* the decoded inputs: an empty buffer, a clip shorter than one pitch
\* frame, a clip longer than 15 s, and a long clip at a high sample rate
\* (its 15 s window holds more than maxFrames frames).
\* AudioBuffer.sampleRate is a float: it is kept as the rational num/den Hz.
Hz(n) == [num |-> n, den |-> 1]

AudioBuffers ==
    { [length |-> 0,       sampleRate |-> Hz(44100),  content |-> "silence"],
      [length |-> 3000,    sampleRate |-> Hz(44100),  content |-> "tone"],
      [length |-> 700000,  sampleRate |-> [num |-> 88201, den |-> 2],
                           content |-> "mixed"],
      [length |-> 6000000, sampleRate |-> Hz(384000), content |-> "mixed"] }

\* audioBuffer.getChannelData(0)
getChannelData(buf) == [from |-> 0, to |-> buf.length]

ArrayLength(arr) == arr.to - arr.from

\* TypedArray.prototype.slice(begin, end) for non-negative arguments
Slice(arr, begin, end) ==
    LET n == ArrayLength(arr)
        s == Min(begin, n)
        e == Min(end, n)
    IN  [from |-> arr.from + s, to |-> arr.from + Max(s, e)]

\* Math.floor of the non-negative rational num/den
Floor(num, den) == num \div den

\* src/src/index.js:930
trimmedSamples(buf) ==
    Min(ArrayLength(getChannelData(buf)),
        Floor(buf.sampleRate.num * maxDurationSec, buf.sampleRate.den))

\* the window cut from the end of the clip instead of its start
TrimWindow_Tail(buf) ==
    LET n == ArrayLength(getChannelData(buf))
    IN  Slice(getChannelData(buf), n - trimmedSamples(buf), n)

\* src/src/index.js:931
TrimWindow(buf) == Slice(getChannelData(buf), 0, trimmedSamples(buf))

\* audioAnalyzer.detectPitch on one frame of the clip: the
\* frequency in Hz, 0 when there is no confident pitch.  The clip's content
\* decides the pitch track.
detectPitch(buf, sample) ==
    LET k == sample.from \div (sampleSize * pitchStrideFactor)
    IN  CASE buf.content = "silence" -> 0
          [] buf.content = "tone"    -> 440
          [] OTHER -> IF k % 6 = 0 THEN 440
                      ELSE IF k % 6 = 1 THEN 0
                      ELSE IF k % 6 = 2 THEN 2500
                      ELSE IF k % 6 = 3 THEN 1999
                      ELSE IF k % 6 = 4 THEN 2000
                      ELSE -1

\* audioAnalyzer.analyzeRhythm with the temporal features, polyrhythm and
\* zero-crossing rate added to it: a value determined by the window read
analyzeRhythm(window) == [computed |-> TRUE, input |-> window]

NoRhythm == [computed |-> FALSE, input |-> [from |-> 0, to |-> 0]]

\* analyzeSpectrum(trimmedChannel, sampleRate): a value determined by the
\* window read and the sample rate
SpectrumOf(window, sampleRate) == [input |-> window, sampleRate |-> sampleRate]

\* ------------------------------------------------------------------------
\* State
\* ------------------------------------------------------------------------
VARIABLES
    analysisCancelled,    \* module-level flag
    cancelBtnShown,       \* cancelBtn.style.display = 'inline-block'
    cancelListeners,      \* once-listeners registered on the cancel button
    analysisResults,      \* content of the #analysis-results element
    currentAnalysisData,  \* module-level record
    pc,                   \* per run: the await it is suspended at
    audioBuffer,          \* per run: the argument
    trimmedChannel,       \* per run: local
    rhythmAnalysis,       \* per run: local
    loopI,                \* per run: i of the pitch loop
    frames,               \* per run: local
    pitches,              \* per run: local
    timestamps,           \* per run: local
    outcome,              \* per run: what the run rendered when it ended
    log,                  \* per run: stages entered and messages shown
    reads,                \* per run: sample ranges handed to the stages
    cancelRequestedIn,    \* per run: stages during which cancel was clicked
    thrown,               \* per run: what its try block threw
    windows,              \* per run: windows of analyzeSpectrum after its loop
    framesAtCancel        \* per run: frames when cancel was clicked inside the
                          \* pitch loop, -1 when it was not

\* displayMusicalInsights: its arguments, the table and what it computes
VARIABLES
    scorePhase,           \* "off", "input" (not yet called) or "scored"
    scoreRhythm,          \* argument rhythmAnalysis: tempo, regularity, polyrhythmic
    scoreScale,           \* argument scaleAnalysis.scale
    allCultures,          \* getAllCultures()
    allScores,            \* the score the forEach computed for each record
    scoreParts,           \* what the tempo, rhythm and scale rules added to it
    culturalMatches,      \* after the sort
    topMatches

\* analyzeRecording: its scorer works on the same rhythm analysis and table
VARIABLES
    recPhase,             \* "off", "input" (not yet called) or "scored"
    recScores,            \* the score the forEach computed for each record
    recParts,             \* what the tempo and rhythm rules added to it
    matches,              \* after the sort
    recTopMatches         \* topMatches of analyzeRecording

\* displayPitchAnalysis and generateAnalysisReport: the pitch summary
VARIABLES
    summaryPitches,       \* the pitches argument / currentAnalysisData.pitches
    pitchInfo,            \* content of the #pitch-info element
    reportText            \* PITCH ANALYSIS section of the report

summaryVars == <<summaryPitches, pitchInfo, reportText>>

\* the service worker (src/unnamed/part_000) and what it works on
VARIABLES
    swState,              \* "parsed", "installed" or "activated"
    online,               \* whether fetch() can reach the network
    cacheStorage,         \* caches: for each cache name, the URLs it holds
    pendingPuts,          \* cache.put calls started and not yet settled
    lastResponse,         \* what the last fetch event was answered with
    stored                \* every cache.put settled so far

swVars == <<swState, online, cacheStorage, pendingPuts, lastResponse, stored>>

\* analyzeSpectrum after its window loop
VARIABLES
    spectrumWindows,      \* spectrum: how many windows, and their sum per bin
    avgSpectrum,          \* the averaged magnitudes, one per bin
    spectrumRate,         \* argument sampleRate
    spectralAnalysis      \* the value returned: centroid, rolloff, brightness

spectrumVars == <<spectrumWindows, avgSpectrum, spectrumRate, spectralAnalysis>>

\* the results page after an analysis: the download controls, and the
\* teacher dashboard
VARIABLES
    downloadListenersInitialized, \* module-level flag
    clickListeners,       \* document click listeners added by setupDownloadButtons
    pitchChart,           \* whether the module-level chart is set (not null)
    rhythmChart,
    spectralChart,
    lastClick,            \* the last click on the page and the downloads it made
    analysesCompleted,    \* runs of analyzeAudioFile that reached their end
    dashboardSession,     \* module-level record, Null when there is none
    completedInSession    \* runs that reached their end since the session began

downloadVars == <<downloadListenersInitialized, clickListeners, pitchChart,
                  rhythmChart, spectralChart, lastClick, analysesCompleted>>
dashboardVars == <<dashboardSession, completedInSession>>

\* the change listener of the file input, one process per file selection
VARIABLES
    uploadPc,             \* per upload: the await it is suspended at
    uploadFile,           \* per upload: e.target.files[0]
    decodeState,          \* per upload: decodePromise of decodeAudioBuffer
    timerState,           \* per upload: the 5 s timer of decodeAudioBuffer
    timedOut,             \* per upload: the timer fired with the decode pending
    analyzeCalled,        \* per upload: analyzeAudioFile was called
    uploadOutcome,        \* per upload: what its handler rendered last
    audioContextState     \* audioAnalyzer.audioContext.state

uploadVars == <<uploadPc, uploadFile, decodeState, timerState, timedOut,
                analyzeCalled, uploadOutcome, audioContextState>>

\* the quiz of initializeQuiz or of initializeExtendedQuiz
VARIABLES
    quizKind,             \* which of the two quizzes the behaviour is about
    quizView,             \* "hidden", "question" or "complete"
    currentQuestion,      \* currentQuestion / currentQ
    quizScore,            \* score
    shownQuestion,        \* the question whose buttons are in the container
    buttonsDisabled,      \* the buttons in the container are disabled
    quizTimers,           \* setTimeout callbacks not yet run
    answers,              \* per question: clicks handled by its buttons
    shows                 \* per question: times showQuestion rendered it

quizVars == <<quizKind, quizView, currentQuestion, quizScore, shownQuestion,
              buttonsDisabled, quizTimers, answers, shows>>
pageVars == <<downloadVars, dashboardVars, uploadVars, quizVars>>

scoreVars == <<scorePhase, scoreRhythm, scoreScale, allCultures, allScores,
               scoreParts, culturalMatches, topMatches,
               recPhase, recScores, recParts, matches, recTopMatches>>

\* everything that analyzeAudioFile and the cancel button leave alone
notRun == <<scoreVars, summaryVars, swVars, spectrumVars, pageVars>>

shared == <<analysisCancelled, cancelBtnShown, cancelListeners,
            analysisResults, currentAnalysisData>>
locals == <<pc, audioBuffer, trimmedChannel, rhythmAnalysis, loopI, frames,
            pitches, timestamps, windows>>
history == <<outcome, log, reads, cancelRequestedIn, thrown, framesAtCancel>>
runVars == <<shared, locals, history>>
\* everything that the scorers leave alone
notScore == <<runVars, summaryVars, swVars, spectrumVars, pageVars>>

\* everything that the pitch summary leaves alone
notSummary == <<runVars, scoreVars, swVars, spectrumVars, pageVars>>

\* everything that the service worker leaves alone
notSW == <<runVars, scoreVars, summaryVars, spectrumVars, pageVars>>

\* everything that analyzeSpectrum leaves alone
notSpectrum == <<runVars, scoreVars, summaryVars, swVars, pageVars>>

\* everything that the results page leaves alone, currentAnalysisData apart
notPage == <<analysisCancelled, cancelBtnShown, cancelListeners, analysisResults,
             locals, history, scoreVars, summaryVars, swVars, spectrumVars,
             uploadVars, quizVars>>

\* everything that the upload handler leaves alone, analysisResults apart
notUpload == <<analysisCancelled, cancelBtnShown, cancelListeners,
               currentAnalysisData, locals, history, scoreVars, summaryVars,
               swVars, spectrumVars, downloadVars, dashboardVars, quizVars>>

\* everything that the quizzes leave alone
notQuiz == <<runVars, scoreVars, summaryVars, swVars, spectrumVars,
             downloadVars, dashboardVars, uploadVars>>

vars == <<runVars, scoreVars, summaryVars, swVars, spectrumVars, pageVars>>

Null == [null |-> TRUE]

CancelMessage == "Analysis cancelled"
FaultMessages == {"Cannot read properties of undefined"}

NoOutcome == [kind |-> "none", message |-> ""]
NothingThrown == [kind |-> "none", stage |-> "none", message |-> ""]

\* the spec's state of a run suspended at each await
StageOf(p) ==
    CASE p = "w936" -> "Rhythm"
      [] p = "w958" -> "Rhythm"
      [] p = "w963" -> "Pitch"
      [] p = "w983" -> "Pitch"
      [] p = "w989" -> "Pitch"
      [] p = "w994" -> "Spectral"
      [] OTHER -> "none"

Suspended(r) == pc[r] \in {"w936", "w958", "w963", "w983", "w989", "w994"}
Ended(r) == pc[r] \in {"done", "failed"}

InitRun ==
    /\ analysisCancelled = FALSE
    /\ cancelBtnShown = FALSE
    /\ cancelListeners = 0
    /\ analysisResults = [view |-> "empty", run |-> 0, message |-> ""]
    /\ currentAnalysisData = Null
    /\ pc = [r \in Runs |-> "idle"]
    /\ audioBuffer = [r \in Runs |-> CHOOSE b \in AudioBuffers : b.length = 0]
    /\ trimmedChannel = [r \in Runs |-> [from |-> 0, to |-> 0]]
    /\ rhythmAnalysis = [r \in Runs |-> NoRhythm]
    /\ loopI = [r \in Runs |-> 0]
    /\ frames = [r \in Runs |-> 0]
    /\ pitches = [r \in Runs |-> <<>>]
    /\ timestamps = [r \in Runs |-> <<>>]
    /\ outcome = [r \in Runs |-> NoOutcome]
    /\ log = [r \in Runs |-> <<>>]
    /\ reads = [r \in Runs |-> {}]
    /\ cancelRequestedIn = [r \in Runs |-> {}]
    /\ thrown = [r \in Runs |-> NothingThrown]
    /\ windows = [r \in Runs |-> 0]
    /\ framesAtCancel = [r \in Runs |-> -1]

ScoreOff ==
    /\ scorePhase = "off"
    /\ scoreRhythm = [tempo |-> 0, regularity |-> 0, polyrhythmic |-> FALSE]
    /\ scoreScale = "Chromatic"
    /\ allCultures = <<>>
    /\ allScores = <<>>
    /\ scoreParts = <<>>
    /\ culturalMatches = <<>>
    /\ topMatches = <<>>
    /\ recPhase = "off"
    /\ recScores = <<>>
    /\ recParts = <<>>
    /\ matches = <<>>
    /\ recTopMatches = <<>>

SummaryOff ==
    /\ summaryPitches = <<>>
    /\ pitchInfo = Null
    /\ reportText = Null

CACHE_NAME == "ethno-explorer-v6-20251227"
RUNTIME_CACHE == "ethno-runtime-v2"

\* a cache left by an earlier version of the worker, and one of another
\* library, neither named in this file
OldCache == "ethno-explorer-v5"
OtherCache == "workbox-precache"

CacheNames == {CACHE_NAME, RUNTIME_CACHE, OldCache, OtherCache}

\* a cache name that caches.keys() does not list
NoCache == [exists |-> FALSE, urls |-> {}]

\* no service worker registered
NoResponse == [url |-> "", mode |-> "", method |-> "", offline |-> FALSE,
               kind |-> "none"]

SWOff ==
    /\ swState = "parsed"
    /\ online = TRUE
    /\ cacheStorage = [k \in CacheNames |-> NoCache]
    /\ pendingPuts = {}
    /\ lastResponse = NoResponse
    /\ stored = {}

SpectrumOff ==
    /\ spectrumWindows = [length |-> 0, sums |-> <<>>]
    /\ avgSpectrum = <<>>
    /\ spectrumRate = Hz(44100)
    /\ spectralAnalysis = Null

NoClick == [target |-> "none", downloads |-> 0, completed |-> 0]

\* src/src/index.js:867-869, 1589
DownloadOff ==
    /\ downloadListenersInitialized = FALSE
    /\ clickListeners = 0
    /\ pitchChart = FALSE
    /\ rhythmChart = FALSE
    /\ spectralChart = FALSE
    /\ lastClick = NoClick
    /\ analysesCompleted = 0

\* src/src/index.js:152
DashboardOff ==
    /\ dashboardSession = Null
    /\ completedInSession = 0

\* file selections in one behaviour
MaxUploads == 2

Uploads == 1..MaxUploads

\* e.target.files[0] undefined
NoFile == [size |-> 0, format |-> "none"]

UploadOff ==
    /\ uploadPc = [u \in Uploads |-> "idle"]
    /\ uploadFile = [u \in Uploads |-> NoFile]
    /\ decodeState = [u \in Uploads |-> "none"]
    /\ timerState = [u \in Uploads |-> "none"]
    /\ timedOut = [u \in Uploads |-> FALSE]
    /\ analyzeCalled = [u \in Uploads |-> FALSE]
    /\ uploadOutcome = [u \in Uploads |-> "none"]
    /\ audioContextState = "running"

\* getRandomQuestions(10)
extendedQuestions == 10

QuestionIds == 0..(extendedQuestions - 1)

QuizOff ==
    /\ quizKind = "culture"
    /\ quizView = "hidden"
    /\ currentQuestion = 0
    /\ quizScore = 0
    /\ shownQuestion = 0
    /\ buttonsDisabled = FALSE
    /\ quizTimers = 0
    /\ answers = [q \in QuestionIds |-> 0]
    /\ shows = [q \in QuestionIds |-> 0]

PageOff == DownloadOff /\ DashboardOff /\ UploadOff /\ QuizOff

Init == InitRun /\ ScoreOff /\ SummaryOff /\ SWOff /\ SpectrumOff /\ PageOff

\* ------------------------------------------------------------------------
\* analyzeAudioFile
\* ------------------------------------------------------------------------
Append2(s, a, b) == Append(Append(s, a), b)

\* the catch block, src/src/index.js:1056-1067: one rendering for whatever
\* the try block threw
Catch(r, message) ==
    /\ cancelBtnShown' = FALSE
    /\ analysisResults' = [view |-> "Analysis Failed", run |-> r,
                           message |-> message]
    /\ outcome' = [outcome EXCEPT ![r] =
                       [kind |-> "Analysis Failed", message |-> message]]
    /\ pc' = [pc EXCEPT ![r] = "failed"]

\* `if (analysisCancelled) throw new Error('Analysis cancelled')`, caught
ThrowCancelled(r) ==
    /\ Catch(r, CancelMessage)
    /\ thrown' = [thrown EXCEPT ![r] =
                      [kind |-> "cancel", stage |-> StageOf(pc[r]),
                       message |-> CancelMessage]]

\* an exception raised inside a stage, caught
ThrowFault(r, stage, message) ==
    /\ Catch(r, message)
    /\ thrown' = [thrown EXCEPT ![r] =
                      [kind |-> "fault", stage |-> stage, message |-> message]]

\* the call up to the first await (lines 910-936): the flag is reset, the
\* cancel listener added, the window cut and the rhythm message shown
StartRun(r, buf) ==
    /\ pc[r] = "idle"
    /\ UNCHANGED notRun
    /\ \A q \in Runs : q < r => pc[q] # "idle"
    /\ analysisCancelled' = FALSE
    /\ cancelBtnShown' = TRUE
    /\ cancelListeners' = cancelListeners + 1
    /\ audioBuffer' = [audioBuffer EXCEPT ![r] = buf]
    /\ trimmedChannel' = [trimmedChannel EXCEPT ![r] = TrimWindow(buf)]
    /\ analysisResults' = [view |-> "Analyzing rhythm", run |-> r, message |-> ""]
    /\ log' = [log EXCEPT ![r] = <<"Preprocess", "msg:rhythm">>]
    /\ pc' = [pc EXCEPT ![r] = "w936"]
    /\ UNCHANGED <<currentAnalysisData, rhythmAnalysis, loopI, frames, pitches,
                   timestamps, outcome, reads, cancelRequestedIn, thrown,
                   windows, framesAtCancel>>

\* lines 939-958: the cancel check, then the rhythm stage
RhythmStage(r) ==
    /\ pc[r] = "w936"
    /\ UNCHANGED notRun
    /\ IF analysisCancelled
       THEN /\ ThrowCancelled(r)
            /\ UNCHANGED <<analysisCancelled, cancelListeners, currentAnalysisData,
                           audioBuffer, trimmedChannel, rhythmAnalysis, loopI,
                           frames, pitches, timestamps, log, reads,
                           cancelRequestedIn, windows,
                   framesAtCancel>>
       ELSE /\ log' = [log EXCEPT ![r] = Append(@, "Rhythm")]
            /\ reads' = [reads EXCEPT ![r] =
                             @ \cup {[stage |-> "Rhythm", range |-> trimmedChannel[r]]}]
            /\ \/ /\ rhythmAnalysis' = [rhythmAnalysis EXCEPT ![r] =
                                             analyzeRhythm(trimmedChannel[r])]
                  /\ pc' = [pc EXCEPT ![r] = "w958"]
                  /\ UNCHANGED <<cancelBtnShown, analysisResults, outcome, thrown>>
               \/ /\ \E m \in FaultMessages : ThrowFault(r, "Rhythm", m)
                  /\ UNCHANGED rhythmAnalysis
            /\ UNCHANGED <<analysisCancelled, cancelListeners, currentAnalysisData,
                           audioBuffer, trimmedChannel, loopI, frames, pitches,
                           timestamps, cancelRequestedIn, windows,
                   framesAtCancel>>

\* the pitch stage entered without its progress message
PitchMessage_NoMessage(r) ==
    /\ pc[r] = "w958"
    /\ UNCHANGED notRun
    /\ IF analysisCancelled
       THEN ThrowCancelled(r)
       ELSE /\ pc' = [pc EXCEPT ![r] = "w963"]
            /\ UNCHANGED <<cancelBtnShown, analysisResults, outcome, thrown>>
    /\ UNCHANGED <<analysisCancelled, cancelListeners, currentAnalysisData,
                   audioBuffer, trimmedChannel, rhythmAnalysis, loopI, frames,
                   pitches, timestamps, log, reads, cancelRequestedIn, windows,
                   framesAtCancel>>

\* lines 961-963: the cancel check, then the pitch message
PitchMessage(r) ==
    /\ pc[r] = "w958"
    /\ UNCHANGED notRun
    /\ IF analysisCancelled
       THEN /\ ThrowCancelled(r)
            /\ UNCHANGED log
       ELSE /\ analysisResults' = [view |-> "Analyzing pitch", run |-> r,
                                   message |-> ""]
            /\ log' = [log EXCEPT ![r] = Append(@, "msg:pitch")]
            /\ pc' = [pc EXCEPT ![r] = "w963"]
            /\ UNCHANGED <<cancelBtnShown, outcome, thrown>>
    /\ UNCHANGED <<analysisCancelled, cancelListeners, currentAnalysisData,
                   audioBuffer, trimmedChannel, rhythmAnalysis, loopI, frames,
                   pitches, timestamps, reads, cancelRequestedIn, windows,
                   framesAtCancel>>

\* a pitch kept whatever its height
AcceptPitch_NoUpperLimit(pitch) == pitch > 0

\* line 975: the pitches that are stored
AcceptPitch(pitch) == pitch > 0 /\ pitch < 2000

\* the pitch loop, lines 971-987, from the loop condition of iteration
\* st.i up to the next await, exit or throw.  n counts the frames of this
\* stretch; detectPitch throws on frame number faultAt of it (0: never).
RECURSIVE PitchLoop(_, _, _, _, _)
PitchLoop(buf, window, faultAt, n, st) ==
    IF ~(st.i < ArrayLength(window) - sampleSize)
    THEN [st EXCEPT !.exit = "end"]
    ELSE IF analysisCancelled
    THEN [st EXCEPT !.exit = "cancel"]
    ELSE
      LET sample == Slice(window, st.i, st.i + sampleSize)
          rd == st.read \cup {[stage |-> "Pitch", range |-> sample]}
      IN  IF faultAt = n + 1
          THEN [st EXCEPT !.exit = "fault", !.read = rd]
          ELSE
            LET pitch == detectPitch(buf, sample)
                keep == AcceptPitch(pitch)
                st2 == [st EXCEPT
                          !.read = rd,
                          !.pitches = IF keep THEN Append(@, pitch) ELSE @,
                          !.timestamps =
                              IF keep
                              THEN Append(@, [num |-> st.i * buf.sampleRate.den,
                                              den |-> buf.sampleRate.num])
                              ELSE @,
                          !.frames = @ + 1]
            IN  IF st2.frames % yieldEvery = 0
                THEN [st2 EXCEPT !.exit = "yield"]
                ELSE IF st2.frames >= maxFrames
                THEN [st2 EXCEPT !.exit = "end"]
                ELSE PitchLoop(buf, window, faultAt, n + 1,
                               [st2 EXCEPT !.i = @ + sampleSize * pitchStrideFactor])

\* what a stretch of the pitch loop leaves behind
ApplyPitchLoop(r, res) ==
    /\ loopI' = [loopI EXCEPT ![r] = res.i]
    /\ frames' = [frames EXCEPT ![r] = res.frames]
    /\ pitches' = [pitches EXCEPT ![r] = res.pitches]
    /\ timestamps' = [timestamps EXCEPT ![r] = res.timestamps]
    /\ reads' = [reads EXCEPT ![r] = @ \cup res.read]
    /\ CASE res.exit = "yield" ->
              /\ pc' = [pc EXCEPT ![r] = "w983"]
              /\ UNCHANGED <<cancelBtnShown, analysisResults, outcome, thrown>>
         [] res.exit = "end" ->
              /\ pc' = [pc EXCEPT ![r] = "w989"]
              /\ UNCHANGED <<cancelBtnShown, analysisResults, outcome, thrown>>
         [] res.exit = "cancel" -> ThrowCancelled(r)
         [] OTHER -> \E m \in FaultMessages : ThrowFault(r, "Pitch", m)

\* lines 965-987 after the await of line 963: the loop from its start
PitchLoopStart(r) ==
    /\ pc[r] = "w963"
    /\ UNCHANGED notRun
    /\ log' = [log EXCEPT ![r] = Append(@, "Pitch")]
    /\ \E faultAt \in 0..yieldEvery :
          ApplyPitchLoop(r, PitchLoop(audioBuffer[r], trimmedChannel[r], faultAt, 0,
                            [i |-> 0, frames |-> 0, pitches |-> <<>>,
                             timestamps |-> <<>>, read |-> {}, exit |-> ""]))
    /\ UNCHANGED <<analysisCancelled, cancelListeners, currentAnalysisData,
                   audioBuffer, trimmedChannel, rhythmAnalysis, cancelRequestedIn, windows,
                   framesAtCancel>>

\* the loop resumed without the test of the frame count
PitchLoopResume_NoBreak(r) ==
    /\ pc[r] = "w983"
    /\ UNCHANGED notRun
    /\ LET st == [i |-> loopI[r], frames |-> frames[r], pitches |-> pitches[r],
                  timestamps |-> timestamps[r], read |-> {}, exit |-> ""]
       IN  IF FALSE
           THEN ApplyPitchLoop(r, [st EXCEPT !.exit = "end"])
           ELSE \E faultAt \in 0..yieldEvery :
                  ApplyPitchLoop(r, PitchLoop(audioBuffer[r], trimmedChannel[r],
                                    faultAt, 0,
                                    [st EXCEPT !.i = @ + sampleSize * pitchStrideFactor]))
    /\ UNCHANGED <<analysisCancelled, cancelListeners, currentAnalysisData,
                   audioBuffer, trimmedChannel, rhythmAnalysis, log,
                   cancelRequestedIn, windows,
                   framesAtCancel>>

\* lines 986-987 and 971-985 after the await of line 983: the break test,
\* the increment, then the loop again
PitchLoopResume(r) ==
    /\ pc[r] = "w983"
    /\ UNCHANGED notRun
    /\ LET st == [i |-> loopI[r], frames |-> frames[r], pitches |-> pitches[r],
                  timestamps |-> timestamps[r], read |-> {}, exit |-> ""]
       IN  IF frames[r] >= maxFrames
           THEN ApplyPitchLoop(r, [st EXCEPT !.exit = "end"])
           ELSE \E faultAt \in 0..yieldEvery :
                  ApplyPitchLoop(r, PitchLoop(audioBuffer[r], trimmedChannel[r],
                                    faultAt, 0,
                                    [st EXCEPT !.i = @ + sampleSize * pitchStrideFactor]))
    /\ UNCHANGED <<analysisCancelled, cancelListeners, currentAnalysisData,
                   audioBuffer, trimmedChannel, rhythmAnalysis, log,
                   cancelRequestedIn, windows,
                   framesAtCancel>>

\* lines 992-994: the cancel check, then the spectrum message
SpectrumMessage(r) ==
    /\ pc[r] = "w989"
    /\ UNCHANGED notRun
    /\ IF analysisCancelled
       THEN /\ ThrowCancelled(r)
            /\ UNCHANGED log
       ELSE /\ analysisResults' = [view |-> "Analyzing spectrum", run |-> r,
                                   message |-> ""]
            /\ log' = [log EXCEPT ![r] = Append(@, "msg:spectrum")]
            /\ pc' = [pc EXCEPT ![r] = "w994"]
            /\ UNCHANGED <<cancelBtnShown, outcome, thrown>>
    /\ UNCHANGED <<analysisCancelled, cancelListeners, currentAnalysisData,
                   audioBuffer, trimmedChannel, rhythmAnalysis, loopI, frames,
                   pitches, timestamps, reads, cancelRequestedIn, windows,
                   framesAtCancel>>

\* the window loop of analyzeSpectrum, lines 1457-1464, run to its end: it
\* has no await.  It gives the number of windows and the span of the
\* samples read, from the start of the first window to the end of the last.
RECURSIVE SpectrumLoop(_, _, _, _)
SpectrumLoop(channelData, i, n, span) ==
    IF ~(i < ArrayLength(channelData) - fftSize)
    THEN [windows |-> n, read |-> span]
    ELSE LET window == Slice(channelData, i, i + fftSize)
             rd == {[stage |-> "Spectral",
                     range |-> [from |-> channelData.from, to |-> window.to]]}
         IN  IF n + 1 >= maxWindows
             THEN [windows |-> n + 1, read |-> rd]
             ELSE SpectrumLoop(channelData, i + fftSize * spectrumStrideFactor,
                               n + 1, rd)

\* the record stored at lines 1031-1040 (analyzedAt, a clock reading, left out)
AnalysisData(r) ==
    [filename |-> r,
     duration |-> [samples |-> audioBuffer[r].length,
                   sampleRate |-> audioBuffer[r].sampleRate],
     sampleRate |-> audioBuffer[r].sampleRate,
     rhythm |-> rhythmAnalysis[r],
     pitches |-> pitches[r],
     timestamps |-> timestamps[r],
     spectral |-> SpectrumOf(trimmedChannel[r], audioBuffer[r].sampleRate)]

\* lines 997-1055 after the await of line 994, with no cancel check: the
\* spectrum, the record, the charts, the scale and the cultural insights.
\* faultIn names the stage that throws ("none": the run completes).
Finish(r, faultIn) ==
    /\ pc[r] = "w994"
    /\ UNCHANGED notRun
    /\ LET loop == SpectrumLoop(trimmedChannel[r], 0, 0, {})
       IN  /\ windows' = [windows EXCEPT ![r] = loop.windows]
           /\ reads' = [reads EXCEPT ![r] = @ \cup loop.read]
    /\ currentAnalysisData' =
          IF faultIn = "Spectral" THEN currentAnalysisData ELSE AnalysisData(r)
    /\ log' = [log EXCEPT ![r] =
          CASE faultIn = "Spectral" -> Append(@, "Spectral")
            [] faultIn = "ScaleID" -> Append2(@, "Spectral", "ScaleID")
            [] faultIn = "CulturalMatch" ->
                 Append(Append2(@, "Spectral", "ScaleID"), "CulturalMatch")
            [] OTHER ->
                 Append2(Append2(@, "Spectral", "ScaleID"), "CulturalMatch", "Done")]
    /\ IF faultIn = "none"
       THEN /\ analysisResults' = [view |-> "results", run |-> r, message |-> ""]
            /\ outcome' = [outcome EXCEPT ![r] = [kind |-> "results", message |-> ""]]
            /\ cancelBtnShown' = FALSE
            /\ pc' = [pc EXCEPT ![r] = "done"]
            /\ UNCHANGED thrown
       ELSE \E m \in FaultMessages : ThrowFault(r, faultIn, m)
    /\ UNCHANGED <<analysisCancelled, cancelListeners, audioBuffer, trimmedChannel,
                   rhythmAnalysis, loopI, frames, pitches, timestamps,
                   cancelRequestedIn, framesAtCancel>>

\* a click on the cancel button (line 919): every once-listener sets the
\* flag and is removed.  A hidden button cannot be clicked.
ClickCancel ==
    /\ cancelBtnShown
    /\ UNCHANGED notRun
    /\ cancelListeners > 0
    /\ analysisCancelled' = TRUE
    /\ cancelListeners' = 0
    /\ cancelRequestedIn' =
          [r \in Runs |-> IF Suspended(r)
                          THEN cancelRequestedIn[r] \cup {StageOf(pc[r])}
                          ELSE cancelRequestedIn[r]]
    /\ framesAtCancel' =
          [r \in Runs |-> IF pc[r] = "w983" /\ framesAtCancel[r] < 0
                          THEN frames[r]
                          ELSE framesAtCancel[r]]
    /\ UNCHANGED <<cancelBtnShown, analysisResults, currentAnalysisData, locals,
                   outcome, log, reads, thrown>>

Next ==
    \/ \E r \in Runs, buf \in AudioBuffers : StartRun(r, buf)
    \/ \E r \in Runs : RhythmStage(r)
    \/ \E r \in Runs : PitchMessage(r)
    \/ \E r \in Runs : PitchLoopStart(r)
    \/ \E r \in Runs : PitchLoopResume(r)
    \/ \E r \in Runs : SpectrumMessage(r)
    \/ \E r \in Runs, faultIn \in {"none", "Spectral", "ScaleID", "CulturalMatch"} :
          Finish(r, faultIn)
    \/ ClickCancel

Spec == Init /\ [][Next]_vars

\* ------------------------------------------------------------------------
\* The culture scorer of displayMusicalInsights (lines 1217-1251)
\* ------------------------------------------------------------------------
topN == 5

\* one part of characteristics.tempo.split('-') after parseInt
Num(n) == [nan |-> FALSE, val |-> n]
NaN == [nan |-> TRUE, val |-> 0]

\* The records a culture table is made of.  A descriptor string is kept as
\* the set of keywords its lower-case form contains, the tempo string as its
\* parts after split('-') and parseInt: "100-140", "90-121", and "varies"
\* (one part, not a number).  "irregular" contains "regular".
CultureKinds ==
    { [tempo |-> <<Num(100), Num(140)>>, rhythm |-> {"steady", "regular"},
       scales |-> {"major", "minor"}],
      [tempo |-> <<Num(90), Num(121)>>, rhythm |-> {"complex", "polyrhythmic"},
       scales |-> {"pentatonic"}],
      [tempo |-> <<NaN>>, rhythm |-> {"regular"}, scales |-> {}] }

CultureTables == UNION {[1..n -> CultureKinds] : n \in 0..MaxCultures}

\* the words of 'Pentatonic', 'Minor', 'Major' that a scale name includes
ScaleIncludes(scale) ==
    CASE scale = "Major (Western)"  -> {"Major"}
      [] scale = "Pentatonic Minor" -> {"Pentatonic", "Minor"}
      [] OTHER -> {}

ScaleNames == {"Major (Western)", "Pentatonic Minor", "Chromatic"}

\* tempo in BPM, regularity in tenths (8 is 0.8)
RhythmProfiles ==
    [tempo : {60, 80, 120}, regularity : {7, 8}, polyrhythmic : BOOLEAN]

\* lines 1226-1228: twice |tempo - avgTempo|, NaN when either bound of the
\* range is missing or not a number
tempoDiff2(rhythm, characteristics) ==
    LET tempoRange == characteristics.tempo
    IN  IF Len(tempoRange) < 2 \/ tempoRange[1].nan \/ tempoRange[2].nan
        THEN NaN
        ELSE LET d == 2 * rhythm.tempo - (tempoRange[1].val + tempoRange[2].val)
             IN  Num(IF d < 0 THEN -d ELSE d)

\* the three tests as independent ifs, their bonuses adding up
TempoBonus_Cumulative(rhythm, characteristics) ==
    LET d == tempoDiff2(rhythm, characteristics)
    IN  IF d.nan THEN 0
        ELSE (IF d.val < 2 * 15 THEN 3 ELSE 0)
           + (IF d.val < 2 * 30 THEN 2 ELSE 0)
           + (IF d.val < 2 * 50 THEN 1 ELSE 0)

\* lines 1230-1232 (every comparison with NaN is false)
TempoBonus(rhythm, characteristics) ==
    LET d == tempoDiff2(rhythm, characteristics)
    IN  IF d.nan THEN 0
        ELSE IF d.val < 2 * 15 THEN 3
        ELSE IF d.val < 2 * 30 THEN 2
        ELSE IF d.val < 2 * 50 THEN 1
        ELSE 0

\* lines 1235-1238
RhythmBonus(rhythm, characteristics) ==
      (IF rhythm.regularity > 7 /\ "steady" \in characteristics.rhythm THEN 2 ELSE 0)
    + (IF rhythm.regularity > 7 /\ "regular" \in characteristics.rhythm THEN 2 ELSE 0)
    + (IF rhythm.polyrhythmic /\ "complex" \in characteristics.rhythm THEN 3 ELSE 0)
    + (IF rhythm.polyrhythmic /\ "polyrhythmic" \in characteristics.rhythm THEN 3 ELSE 0)

\* lines 1241-1243
ScaleBonus(scale, characteristics) ==
      (IF "Pentatonic" \in ScaleIncludes(scale) /\ "pentatonic" \in characteristics.scales
       THEN 3 ELSE 0)
    + (IF "Minor" \in ScaleIncludes(scale) /\ "minor" \in characteristics.scales
       THEN 2 ELSE 0)
    + (IF "Major" \in ScaleIncludes(scale) /\ "major" \in characteristics.scales
       THEN 2 ELSE 0)

\* lines 1222-1243: the score of one record
CultureScore(rhythm, scale, culture) ==
      TempoBonus(rhythm, culture)
    + RhythmBonus(rhythm, culture)
    + ScaleBonus(scale, culture)

\* records that scored nothing pushed as well
Pushed_NonNegative(score) == score >= 0

\* line 1245: the records pushed, in table order
Pushed(score) == score > 0

RECURSIVE CollectMatches(_, _)
CollectMatches(scores, k) ==
    IF k > Len(scores) THEN <<>>
    ELSE (IF Pushed(scores[k]) THEN <<[culture |-> k, score |-> scores[k]]>> ELSE <<>>)
         \o CollectMatches(scores, k + 1)

\* the comparator of line 1250: a goes before b when it is negative
CompareMatches(a, b) == b.score - a.score

\* a sort that puts a record before the records it ties with
InsertMatch_BeforeEquals(sorted, x) ==
    LET after == {k \in 1..Len(sorted) : CompareMatches(sorted[k], x) >= 0}
        pos == IF after = {} THEN Len(sorted) + 1
               ELSE CHOOSE k \in after : \A j \in after : k <= j
    IN  SubSeq(sorted, 1, pos - 1) \o <<x>> \o SubSeq(sorted, pos, Len(sorted))

\* Array.prototype.sort with that comparator: a stable sort, by insertion
InsertMatch(sorted, x) ==
    LET after == {k \in 1..Len(sorted) : CompareMatches(sorted[k], x) > 0}
        pos == IF after = {} THEN Len(sorted) + 1
               ELSE CHOOSE k \in after : \A j \in after : k <= j
    IN  SubSeq(sorted, 1, pos - 1) \o <<x>> \o SubSeq(sorted, pos, Len(sorted))

RECURSIVE SortMatches(_)
SortMatches(ms) ==
    IF ms = <<>> THEN <<>>
    ELSE InsertMatch(SortMatches(SubSeq(ms, 1, Len(ms) - 1)), ms[Len(ms)])

\* Array.prototype.slice(0, n)
Take(ms, n) == SubSeq(ms, 1, Min(n, Len(ms)))

\* ------------------------------------------------------------------------
\* The culture scorer of analyzeRecording (lines 2362-2384)
\* ------------------------------------------------------------------------
recTopN == 3

\* lines 2370-2373
RecTempoBonus(rhythm, characteristics) ==
    LET d == tempoDiff2(rhythm, characteristics)
    IN  IF d.nan THEN 0
        ELSE IF d.val < 2 * 20 THEN 3
        ELSE IF d.val < 2 * 40 THEN 2
        ELSE IF d.val < 2 * 60 THEN 1
        ELSE 0

\* lines 2375-2376: includes() on the descriptor as it is written; the
\* descriptors of CultureKinds are written in lower case
RecRhythmBonus(rhythm, characteristics) ==
      (IF rhythm.regularity > 7 /\ "regular" \in characteristics.rhythm THEN 2 ELSE 0)
    + (IF rhythm.regularity < 5 /\ "complex" \in characteristics.rhythm THEN 2 ELSE 0)

\* what each group of rules adds for one record
ScoreParts(rhythm, scale, culture) ==
    [tempo |-> TempoBonus(rhythm, culture),
     rhythm |-> RhythmBonus(rhythm, culture),
     scale |-> ScaleBonus(scale, culture)]

RecParts(rhythm, culture) ==
    [tempo |-> RecTempoBonus(rhythm, culture),
     rhythm |-> RecRhythmBonus(rhythm, culture)]

ScoreIdle ==
    /\ allScores = <<>>
    /\ scoreParts = <<>>
    /\ culturalMatches = <<>>
    /\ topMatches = <<>>
    /\ recScores = <<>>
    /\ recParts = <<>>
    /\ matches = <<>>
    /\ recTopMatches = <<>>

InitScore ==
    /\ InitRun
    /\ PageOff
    /\ SummaryOff
    /\ SWOff
    /\ SpectrumOff
    /\ scorePhase = "input"
    /\ recPhase = "off"
    /\ scoreRhythm \in RhythmProfiles
    /\ scoreScale \in ScaleNames
    /\ allCultures \in CultureTables
    /\ ScoreIdle

\* lines 1217-1251 of displayMusicalInsights
ScoreCultures ==
    /\ scorePhase = "input"
    /\ LET scores == [k \in 1..Len(allCultures) |->
                         CultureScore(scoreRhythm, scoreScale, allCultures[k])]
           sorted == SortMatches(CollectMatches(scores, 1))
       IN  /\ allScores' = scores
           /\ culturalMatches' = sorted
           /\ topMatches' = Take(sorted, topN)
    /\ scoreParts' = [k \in 1..Len(allCultures) |->
                         ScoreParts(scoreRhythm, scoreScale, allCultures[k])]
    /\ scorePhase' = "scored"
    /\ UNCHANGED <<scoreRhythm, scoreScale, allCultures, recPhase, recScores,
                   recParts, matches, recTopMatches, notScore>>

\* lines 2362-2384 of analyzeRecording
ScoreRecording ==
    /\ recPhase = "input"
    /\ LET parts == [k \in 1..Len(allCultures) |->
                        RecParts(scoreRhythm, allCultures[k])]
           scores == [k \in 1..Len(allCultures) |->
                         parts[k].tempo + parts[k].rhythm]
           sorted == SortMatches(CollectMatches(scores, 1))
       IN  /\ recParts' = parts
           /\ recScores' = scores
           /\ matches' = sorted
           /\ recTopMatches' = Take(sorted, recTopN)
    /\ recPhase' = "scored"
    /\ UNCHANGED <<scorePhase, scoreRhythm, scoreScale, allCultures, allScores,
                   scoreParts, culturalMatches, topMatches, notScore>>

NextScore == ScoreCultures

SpecScore == InitScore /\ [][NextScore]_vars

\* both scorers on one rhythm analysis and one table
MaxMatchCultures == 6

MatchProfiles ==
    [tempo : {60, 80, 120}, regularity : {4, 8}, polyrhythmic : BOOLEAN]

InitMatch ==
    /\ InitRun
    /\ PageOff
    /\ SummaryOff
    /\ SWOff
    /\ SpectrumOff
    /\ scorePhase = "input"
    /\ recPhase = "input"
    /\ scoreRhythm \in MatchProfiles
    /\ scoreScale \in ScaleNames
    /\ allCultures \in UNION {[1..n -> CultureKinds] : n \in 0..MaxMatchCultures}
    /\ ScoreIdle

NextMatch == ScoreCultures \/ ScoreRecording

SpecMatch == InitMatch /\ [][NextMatch]_vars

\* the tempo rules alone: every tempo against two tempo strings
MaxTempo == 200

\* "100-140", "90-121", "60-80", "varies", "120" and "100-fast"
TempoKinds ==
    { [tempo |-> tr, rhythm |-> {}, scales |-> {}] :
        tr \in { <<Num(100), Num(140)>>, <<Num(90), Num(121)>>,
                 <<Num(60), Num(80)>>, <<NaN>>, <<Num(120)>>,
                 <<Num(100), NaN>> } }

InitTempo ==
    /\ InitRun
    /\ PageOff
    /\ SummaryOff
    /\ SWOff
    /\ SpectrumOff
    /\ scorePhase = "input"
    /\ recPhase = "input"
    /\ scoreRhythm \in [tempo : 0..MaxTempo, regularity : {8}, polyrhythmic : {FALSE}]
    /\ scoreScale = "Chromatic"
    /\ allCultures \in [1..2 -> TempoKinds]
    /\ ScoreIdle

SpecTempo == InitTempo /\ [][NextMatch]_vars

\* ------------------------------------------------------------------------
\* The pitch summary: displayPitchAnalysis (lines 1070-1139) and the PITCH
\* ANALYSIS section of generateAnalysisReport (lines 1645-1648)
\* ------------------------------------------------------------------------
MaxPitches == 3

\* frequencies the pitch stage may have stored: A3, A4, a sharp A4 and A5
PitchValues == {220, 440, 445, 880}

PitchSeries == UNION {[1..n -> PitchValues] : n \in 0..MaxPitches}

\* a JavaScript number: the rational num/den, NaN, Infinity or -Infinity
Fin(n, d) == [kind |-> "finite", num |-> n, den |-> d]
NotANumber == [kind |-> "NaN", num |-> 0, den |-> 1]
Infinity == [kind |-> "Infinity", num |-> 0, den |-> 1]
MinusInfinity == [kind |-> "-Infinity", num |-> 0, den |-> 1]

\* a / n for integers a >= 0 and n >= 0
Divide(a, n) ==
    IF n # 0 THEN Fin(a, n)
    ELSE IF a = 0 THEN NotANumber
    ELSE Infinity

\* Math.sqrt of a number that is not negative: kept as the root of its square
Sqrt(x) == IF x.kind = "finite" THEN [x EXCEPT !.kind = "sqrt"] ELSE x

\* Number.prototype.toFixed(2) of a number that is not negative: the digits
\* of the value rounded to hundredths (for a root: the digits of the root of
\* the value with these hundredths), or the name of a value without digits
toFixed2(x) ==
    IF x.kind \in {"finite", "sqrt"}
    THEN [text |-> "digits",
          hundredths |-> (200 * x.num + x.den) \div (2 * x.den),
          sqrt |-> (x.kind = "sqrt")]
    ELSE [text |-> x.kind, hundredths |-> 0, sqrt |-> FALSE]

\* pitches.reduce((a, b) => a + b, 0)
RECURSIVE SumSeq(_)
SumSeq(ps) == IF ps = <<>> THEN 0 ELSE ps[1] + SumSeq(Tail(ps))

\* Math.min(...pitches) and Math.max(...pitches)
MathMin(ps) ==
    IF ps = <<>> THEN Infinity
    ELSE Fin(CHOOSE v \in Range(ps) : \A w \in Range(ps) : v <= w, 1)
MathMax(ps) ==
    IF ps = <<>> THEN MinusInfinity
    ELSE Fin(CHOOSE v \in Range(ps) : \A w \in Range(ps) : v >= w, 1)

\* line 1128
avgPitch(ps) == Divide(SumSeq(ps), Len(ps))

\* the argument of Math.sqrt at line 1130: with n = pitches.length and
\* S their sum, the sum of (p - S/n)^2 is the sum of (n*p - S)^2 over n^2
RECURSIVE SquaredDeviations(_, _, _)
SquaredDeviations(ps, n, S) ==
    IF ps = <<>> THEN 0
    ELSE (n * ps[1] - S) * (n * ps[1] - S) + SquaredDeviations(Tail(ps), n, S)

Variance(ps) ==
    LET n == Len(ps)
    IN  IF n = 0 THEN Divide(0, 0)
        ELSE Fin(SquaredDeviations(ps, n, SumSeq(ps)), n * n * n)

pitchStdDev(ps) == Sqrt(Variance(ps))

\* pitchStdDev > 50 ? 'High' : pitchStdDev > 20 ? 'Moderate' : 'Low'
Variability(sd) ==
    IF sd.kind = "sqrt" /\ sd.num > 2500 * sd.den THEN "High"
    ELSE IF sd.kind = "sqrt" /\ sd.num > 400 * sd.den THEN "Moderate"
    ELSE "Low"

\* hundredths of Hz at which round(69 + 12 log2(f / 440)) steps up to the
\* MIDI notes 56 .. 83
SemitoneFloor ==
    <<20174, 21374, 22645, 23991, 25418, 26929, 28530, 30227, 32024, 33929,
      35946, 38084, 40348, 42747, 45289, 47982, 50836, 53858, 57061, 60454,
      64049, 67857, 71892, 76167, 80696, 85495, 90579, 95965>>

\* audioAnalyzer.frequencyToMidiNote for 201.74 Hz <= f < 959.65 Hz, and NaN
frequencyToMidiNote(x) ==
    IF x.kind # "finite" THEN NotANumber
    ELSE Fin(CHOOSE m \in 56..82 :
                 /\ SemitoneFloor[m - 55] * x.den <= 100 * x.num
                 /\ 100 * x.num < SemitoneFloor[m - 54] * x.den, 1)

NoteNames == <<"C", "C#", "D", "D#", "E", "F", "F#", "G", "G#", "A", "A#", "B">>

\* audioAnalyzer.midiToNoteName; noteNames[NaN] is undefined
midiToNoteName(m) ==
    IF m.kind # "finite" THEN [name |-> "undefined", octave |-> NotANumber]
    ELSE [name |-> NoteNames[(m.num % 12) + 1],
          octave |-> Fin((m.num \div 12) - 1, 1)]

\* lines 1085-1089: the count of each MIDI note
Histogram(ps) ==
    LET note(k) == frequencyToMidiNote(Fin(ps[k], 1)).num
    IN  [m \in {note(k) : k \in DOMAIN ps} |->
            Cardinality({k \in DOMAIN ps : note(k) = m})]

\* lines 1091-1093: Object.entries lists integer keys in ascending order,
\* the stable sort by descending count keeps that order among equal counts
RECURSIVE SortedEntries(_, _)
SortedEntries(h, left) ==
    IF left = {} THEN <<>>
    ELSE LET first == CHOOSE m \in left :
                         \A o \in left : \/ h[m] > h[o]
                                         \/ h[m] = h[o] /\ m <= o
         IN  <<[note |-> first, count |-> h[first]]>>
               \o SortedEntries(h, left \ {first})

sortedNotes(ps) == Take(SortedEntries(Histogram(ps), DOMAIN Histogram(ps)), 12)

InitSummary ==
    /\ InitRun
    /\ PageOff
    /\ ScoreOff
    /\ SWOff
    /\ SpectrumOff
    /\ summaryPitches \in PitchSeries
    /\ pitchInfo = Null
    /\ reportText = Null

\* lines 1128-1138 of displayPitchAnalysis
DisplayPitchAnalysis ==
    /\ pitchInfo' =
          [average |-> toFixed2(avgPitch(summaryPitches)),
           avgNote |-> midiToNoteName(frequencyToMidiNote(avgPitch(summaryPitches))),
           rangeLow |-> toFixed2(MathMin(summaryPitches)),
           rangeHigh |-> toFixed2(MathMax(summaryPitches)),
           mostCommonNote |->
               IF sortedNotes(summaryPitches) # <<>>
               THEN [text |-> "note",
                     note |-> midiToNoteName(Fin(sortedNotes(summaryPitches)[1].note, 1))]
               ELSE [text |-> "N/A", note |-> midiToNoteName(NotANumber)],
           variation |-> toFixed2(pitchStdDev(summaryPitches)),
           variability |-> Variability(pitchStdDev(summaryPitches)),
           total |-> Len(summaryPitches)]
    /\ UNCHANGED <<summaryPitches, reportText, notSummary>>

\* lines 1645-1648 of generateAnalysisReport
GenerateAnalysisReport ==
    /\ reportText' =
          [total |-> Len(summaryPitches),
           average |-> toFixed2(Divide(SumSeq(summaryPitches), Len(summaryPitches))),
           rangeLow |-> toFixed2(MathMin(summaryPitches)),
           rangeHigh |-> toFixed2(MathMax(summaryPitches))]
    /\ UNCHANGED <<summaryPitches, pitchInfo, notSummary>>

NextSummary == DisplayPitchAnalysis \/ GenerateAnalysisReport

SpecSummary == InitSummary /\ [][NextSummary]_vars

\* ------------------------------------------------------------------------
\* The service worker, src/unnamed/part_000
\* ------------------------------------------------------------------------
\* k.startsWith('ethno-')
StartsWithEthno(k) == k \in {CACHE_NAME, RUNTIME_CACHE, OldCache}

\* the requests of the page: two navigations, a script, an audio file, an
\* image, the favicon, and a form post
Requests ==
    { [url |-> "/index.html", mode |-> "navigate", method |-> "GET"],
      [url |-> "/about.html", mode |-> "navigate", method |-> "GET"],
      [url |-> "/main.js", mode |-> "no-cors", method |-> "GET"],
      [url |-> "/song.mp3", mode |-> "no-cors", method |-> "GET"],
      [url |-> "/logo.png", mode |-> "no-cors", method |-> "GET"],
      [url |-> "/favicon.ico", mode |-> "no-cors", method |-> "GET"],
      [url |-> "/feedback", mode |-> "cors", method |-> "POST"] }

IsFavicon(url) == url = "/favicon.ico"
IsAudio(url) == url = "/song.mp3"
IsImage(url) == url = "/logo.png"

\* new URL('index.html', self.location)
scopedIndex == "/index.html"

\* what fetch(request) settles with: a status, or "failed" (rejected)
NetworkResults == IF online THEN {"200", "404"} ELSE {"failed"}

\* caches.match(url): the URL is in some cache
CachesMatch(url) == \E k \in CacheNames : url \in cacheStorage[k].urls

\* cache.match(url) on caches.open(name)
CacheMatch(name, url) == url \in cacheStorage[name].urls

\* caches.open(name): the cache is created when it does not exist
Opened(store, name) == [store EXCEPT ![name].exists = TRUE]

\* the worker is registered; the origin may hold caches of an earlier version
InitSW ==
    /\ InitRun
    /\ PageOff
    /\ ScoreOff
    /\ SummaryOff
    /\ SpectrumOff
    /\ swState = "parsed"
    /\ online = TRUE
    /\ \E old, other \in {NoCache, [exists |-> TRUE, urls |-> {}],
                          [exists |-> TRUE, urls |-> {"/index.html"}]} :
          cacheStorage = [k \in CacheNames |->
                             IF k = OldCache THEN old
                             ELSE IF k = OtherCache THEN other
                             ELSE NoCache]
    /\ pendingPuts = {}
    /\ lastResponse = NoResponse
    /\ stored = {}

\* lines 8-11: nothing is cached
Install ==
    /\ swState = "parsed"
    /\ swState' = "installed"
    /\ UNCHANGED <<online, cacheStorage, pendingPuts, lastResponse, stored, notSW>>

\* lines 13-23: the caches of earlier versions are deleted
Activate ==
    /\ swState = "installed"
    /\ swState' = "activated"
    /\ cacheStorage' =
          [k \in CacheNames |->
              IF StartsWithEthno(k) /\ k # CACHE_NAME /\ k # RUNTIME_CACHE
              THEN NoCache
              ELSE cacheStorage[k]]
    /\ UNCHANGED <<online, pendingPuts, lastResponse, stored, notSW>>

Respond(request, kind) ==
    lastResponse' = [url |-> request.url, mode |-> request.mode,
                     method |-> request.method,
                     offline |-> ~online, kind |-> kind]

NetworkKind(result) == IF result = "200" THEN "network 200" ELSE "network 404"

\* cache.put(request, response.clone()) on the cache called name
Put(name, request, result) ==
    [cache |-> name, url |-> request.url, status |-> result,
     method |-> request.method]

\* network first, the response stored whatever its status
NetworkFirst_AnyStatus(request, result, name, fallback) ==
    IF result = "failed"
    THEN /\ Respond(request, fallback)
         /\ UNCHANGED <<cacheStorage, pendingPuts>>
    ELSE /\ Respond(request, NetworkKind(result))
         /\ pendingPuts' = pendingPuts \cup {Put(name, request, result)}
         /\ UNCHANGED cacheStorage

\* network first: the network's response, stored under name when its status
\* is 200, else what the handler of the rejection returns
NetworkFirst(request, result, name, fallback) ==
    IF result = "failed"
    THEN /\ Respond(request, fallback)
         /\ UNCHANGED <<cacheStorage, pendingPuts>>
    ELSE /\ Respond(request, NetworkKind(result))
         /\ pendingPuts' = IF result = "200"
                           THEN pendingPuts \cup {Put(name, request, result)}
                           ELSE pendingPuts
         /\ UNCHANGED cacheStorage

\* cache first on RUNTIME_CACHE, lines 66-80 and 85-99
CacheFirst(request, result) ==
    /\ cacheStorage' = Opened(cacheStorage, RUNTIME_CACHE)
    /\ IF CacheMatch(RUNTIME_CACHE, request.url)
       THEN /\ Respond(request, "cached")
            /\ UNCHANGED pendingPuts
       ELSE IF result = "failed"
       THEN /\ Respond(request, "undefined")
            /\ UNCHANGED pendingPuts
       ELSE /\ Respond(request, NetworkKind(result))
            /\ pendingPuts' =
                  IF result = "200"
                  THEN pendingPuts \cup {Put(RUNTIME_CACHE, request, result)}
                  ELSE pendingPuts

\* the fetch listener, lines 25-113, for one request and one network result
Fetch(request, result) ==
    /\ swState = "activated"
    /\ result \in NetworkResults
    /\ CASE request.method # "GET" ->
              /\ Respond(request, "not handled")
              /\ UNCHANGED <<cacheStorage, pendingPuts>>
         [] request.method = "GET" /\ IsFavicon(request.url) ->
              /\ Respond(request, IF result = "failed" THEN "empty 204"
                                  ELSE NetworkKind(result))
              /\ UNCHANGED <<cacheStorage, pendingPuts>>
         [] request.method = "GET" /\ ~IsFavicon(request.url)
              /\ request.mode = "navigate" ->
              NetworkFirst(request, result, CACHE_NAME,
                           IF CachesMatch(request.url) \/ CachesMatch(scopedIndex)
                           THEN "cached" ELSE "undefined")
         [] request.method = "GET" /\ ~IsFavicon(request.url)
              /\ request.mode # "navigate"
              /\ (IsAudio(request.url) \/ IsImage(request.url)) ->
              CacheFirst(request, result)
         [] OTHER ->
              NetworkFirst(request, result, RUNTIME_CACHE,
                           IF CachesMatch(request.url) THEN "cached" ELSE "undefined")
    /\ UNCHANGED <<swState, online, stored, notSW>>

\* a cache.put started by a fetch event settles
CachePut(put) ==
    /\ put \in pendingPuts
    /\ cacheStorage' =
          [Opened(cacheStorage, put.cache) EXCEPT ![put.cache].urls = @ \cup {put.url}]
    /\ pendingPuts' = pendingPuts \ {put}
    /\ stored' = stored \cup {put}
    /\ UNCHANGED <<swState, online, lastResponse, notSW>>

\* the network comes and goes
NetworkChange ==
    /\ online' = ~online
    /\ UNCHANGED <<swState, cacheStorage, pendingPuts, lastResponse, stored, notSW>>

NextSW ==
    \/ Install
    \/ Activate
    \/ \E request \in Requests, result \in {"200", "404", "failed"} : Fetch(request, result)
    \/ \E put \in [cache : {CACHE_NAME, RUNTIME_CACHE}, url : {r.url : r \in Requests},
                    status : {"200", "404"}, method : {"GET", "POST"}] :
          CachePut(put)
    \/ NetworkChange

SpecSW == InitSW /\ [][NextSW]_vars

\* ------------------------------------------------------------------------
\* The spectral features: lines 1475-1478 of analyzeSpectrum with
\* calculateSpectralCentroid and calculateSpectralRolloff (lines 1497-1519)
\* ------------------------------------------------------------------------
\* number of bins of the averaged spectrum (fftSize / 2 in analyzeSpectrum)
MaxBins == 3

RECURSIVE GCD(_, _)
GCD(a, b) == IF b = 0 THEN a ELSE GCD(b, a % b)

\* the number num/den in lowest terms
Reduced(x) ==
    IF x.kind # "finite" THEN x
    ELSE LET g == GCD(x.num, x.den) IN Fin(x.num \div g, x.den \div g)

\* +, * and / of JavaScript numbers that are not negative
Plus(x, y) ==
    IF x.kind = "NaN" \/ y.kind = "NaN" THEN NotANumber
    ELSE IF x.kind = "Infinity" \/ y.kind = "Infinity" THEN Infinity
    ELSE LET l == (x.den \div GCD(x.den, y.den)) * y.den
         IN  Reduced(Fin(x.num * (l \div x.den) + y.num * (l \div y.den), l))

Times(x, y) ==
    IF x.kind = "NaN" \/ y.kind = "NaN" THEN NotANumber
    ELSE IF x.kind = "Infinity" \/ y.kind = "Infinity"
    THEN (IF (x.kind = "finite" /\ x.num = 0) \/ (y.kind = "finite" /\ y.num = 0)
          THEN NotANumber ELSE Infinity)
    ELSE LET a == Reduced(Fin(x.num, y.den))
             b == Reduced(Fin(y.num, x.den))
         IN  Reduced(Fin(a.num * b.num, a.den * b.den))

Over(x, y) ==
    IF x.kind = "NaN" \/ y.kind = "NaN" THEN NotANumber
    ELSE IF y.kind = "Infinity"
    THEN (IF x.kind = "Infinity" THEN NotANumber ELSE Fin(0, 1))
    ELSE IF x.kind = "Infinity" THEN Infinity
    ELSE IF y.num = 0 THEN (IF x.num = 0 THEN NotANumber ELSE Infinity)
    ELSE Times(x, Fin(y.den, y.num))

\* x > 0 and x >= y (false when either side is NaN)
IsPositive(x) == x.kind = "Infinity" \/ (x.kind = "finite" /\ x.num > 0)
AtLeast(x, y) ==
    /\ x.kind # "NaN"
    /\ y.kind # "NaN"
    /\ \/ x.kind = "Infinity"
       \/ x.kind = "finite" /\ y.kind = "finite" /\ x.num * y.den >= y.num * x.den

\* what the window loop leaves in spectrum: no window (a channel of at most
\* fftSize samples), one window or two, with the sum of their magnitudes in
\* each bin (lines 1467-1472); the averages are 0, 0.5, 1, 2, 3 and 6
WindowSums == {0, 1, 2, 6}

Spectra ==
    UNION { {[length |-> 0, sums |-> [k \in 1..n |-> 0]]}
            \cup [length : {1, 2}, sums : [1..n -> WindowSums]] : n \in 1..MaxBins }

\* line 1473: avgSpectrum[i] = val / spectrum.length
Averaged(sp) == [k \in DOMAIN sp.sums |-> Over(Fin(sp.sums[k], 1), Fin(sp.length, 1))]

SampleRates == {Hz(8000), Hz(44100), [num |-> 22051, den |-> 2]}

\* (i * sampleRate) / (spectrum.length * 2) for the bin at index i (from 0)
BinFrequency(i, n, sampleRate) ==
    Reduced(Fin(i * sampleRate.num, n * 2 * sampleRate.den))

\* weightedSum and sum after the loop of lines 1500-1504, bins k.. (from 1)
RECURSIVE CentroidSums(_, _, _, _, _)
CentroidSums(spectrum, sampleRate, k, weightedSum, sum) ==
    IF k > Len(spectrum) THEN [weightedSum |-> weightedSum, sum |-> sum]
    ELSE CentroidSums(spectrum, sampleRate, k + 1,
            Plus(weightedSum,
                 Times(BinFrequency(k - 1, Len(spectrum), sampleRate), spectrum[k])),
            Plus(sum, spectrum[k]))

\* the bin frequencies taken over spectrum.length instead of twice that
calculateSpectralCentroid_FullBand(spectrum, sampleRate) ==
    LET sums == CentroidSums(spectrum, sampleRate, 1, Fin(0, 1), Fin(0, 1))
    IN  IF IsPositive(sums.sum)
        THEN Times(Fin(2, 1), Over(sums.weightedSum, sums.sum))
        ELSE Fin(0, 1)

\* lines 1497-1506
calculateSpectralCentroid(spectrum, sampleRate) ==
    LET sums == CentroidSums(spectrum, sampleRate, 1, Fin(0, 1), Fin(0, 1))
    IN  IF IsPositive(sums.sum) THEN Over(sums.weightedSum, sums.sum) ELSE Fin(0, 1)

\* spectrum.reduce((a, b) => a + b, 0)
RECURSIVE TotalEnergy(_, _)
TotalEnergy(spectrum, k) ==
    IF k > Len(spectrum) THEN Fin(0, 1)
    ELSE Plus(spectrum[k], TotalEnergy(spectrum, k + 1))

\* the loop of lines 1512-1517 from bin k (from 1); 0.85 is 85/100
RECURSIVE RolloffFrom(_, _, _, _, _)
RolloffFrom(spectrum, sampleRate, threshold, k, cumulativeEnergy) ==
    IF k > Len(spectrum) THEN Fin(0, 1)
    ELSE LET c == Plus(cumulativeEnergy, spectrum[k])
         IN  IF AtLeast(c, threshold)
             THEN BinFrequency(k - 1, Len(spectrum), sampleRate)
             ELSE RolloffFrom(spectrum, sampleRate, threshold, k + 1, c)

\* the threshold at half of the total
calculateSpectralRolloff_Half(sp, sampleRate) ==
    RolloffFrom(sp, sampleRate,
                Times(TotalEnergy(sp, 1), Fin(50, 100)), 1, Fin(0, 1))

\* lines 1508-1519
calculateSpectralRolloff(spectrum, sampleRate) ==
    RolloffFrom(spectrum, sampleRate,
                Times(TotalEnergy(spectrum, 1), Fin(85, 100)), 1, Fin(0, 1))

InitSpectrum ==
    /\ InitRun
    /\ PageOff
    /\ ScoreOff
    /\ SummaryOff
    /\ SWOff
    /\ spectrumWindows \in Spectra
    /\ avgSpectrum = <<>>
    /\ spectrumRate \in SampleRates
    /\ spectralAnalysis = Null

\* lines 1466-1485 of analyzeSpectrum
SpectralFeatures ==
    /\ spectralAnalysis = Null
    /\ LET avg == Averaged(spectrumWindows)
           spectralCentroid == calculateSpectralCentroid(avg, spectrumRate)
       IN  /\ avgSpectrum' = avg
           /\ spectralAnalysis' =
                  [spectrum |-> avg,
                   centroid |-> spectralCentroid,
                   rolloff |-> calculateSpectralRolloff(avg, spectrumRate),
                   brightness |-> Over(spectralCentroid,
                                       Fin(spectrumRate.num, 2 * spectrumRate.den))]
    /\ UNCHANGED <<spectrumWindows, spectrumRate, notSpectrum>>

NextSpectrum == SpectralFeatures

SpecSpectrum == InitSpectrum /\ [][NextSpectrum]_vars

\* ------------------------------------------------------------------------
\* Properties of the orchestrator
\* ------------------------------------------------------------------------
IsPrefix(s, t) == Len(s) <= Len(t) /\ \A k \in 1..Len(s) : s[k] = t[k]

DataOwner(d) == IF d = Null THEN 0 ELSE d.filename
ReportedStage(o) == IF "stage" \in DOMAIN o THEN o.stage ELSE "none"
RanUnder(r, q) == q > r /\ pc[q] # "idle"

\* C1: a run that observed the cancel request never ends with the same
\* outcome as a run that ended through a stage fault.
C1_CancelledDistinctFromFailed ==
    \A r, q \in Runs :
        (thrown[r].kind = "cancel" /\ thrown[q].kind = "fault")
            => outcome[r].kind # outcome[q].kind

\* C2: a run during which cancel was clicked, in whatever non-terminal state
\* it was then, does not go on to Done.
C2_CancelAlwaysCancels ==
    \A r \in Runs :
        \A stage \in {"Preprocess", "Rhythm", "Pitch", "Spectral", "ScaleID",
                       "CulturalMatch"} :
            stage \in cancelRequestedIn[r] => pc[r] # "done"

\* C3: after a run that was cancelled before its Pitch stage began, the
\* analysis record holds no pitch, spectral, scale or cultural-match data
\* (stated while that run's outcome is the one on display).
C3_CancelBeforePitchLeavesNoData ==
    \A r \in Runs :
        (/\ thrown[r].kind = "cancel"
         /\ "Pitch" \notin Range(log[r])
         /\ analysisResults.run = r
         /\ analysisResults.view = "Analysis Failed")
            => \/ currentAnalysisData = Null
               \/ DOMAIN currentAnalysisData \cap
                    {"pitches", "timestamps", "spectral", "scale", "similarity"} = {}

\* the stages and stage messages of a complete run, in the order of the code
FullLog ==
    <<"Preprocess", "msg:rhythm", "Rhythm", "msg:pitch", "Pitch",
      "msg:spectrum", "Spectral", "ScaleID", "CulturalMatch", "Done">>

\* C4: in every run the stages are entered in the order Preprocess, Rhythm,
\* Pitch, Spectral, ScaleID, CulturalMatch, Done, none skipped or repeated,
\* each of the rhythm, pitch and spectrum messages shown once, just before
\* its stage; a run is Done exactly when it went through all of them.
C4_StagesInOrder ==
    \A r \in Runs :
        /\ IsPrefix(log[r], FullLog)
        /\ (pc[r] = "done") <=> (log[r] = FullLog)
        /\ pc[r] = "w958" => log[r][Len(log[r])] = "Rhythm"
        /\ pc[r] \in {"w983", "w989"} => log[r][Len(log[r])] = "Pitch"

C4_Witness ==
    \E r \in Runs : pc[r] = "done" /\ frames[r] = maxFrames /\ log[r] = FullLog

\* C5: once a later run has started, an earlier run writes neither the
\* result display nor currentAnalysisData.
C5_EarlierRunDiscarded ==
    [][\A r \in Runs :
          (\E q \in Runs : RanUnder(r, q))
            => /\ (analysisResults' # analysisResults => analysisResults'.run # r)
               /\ (currentAnalysisData' # currentAnalysisData
                     => DataOwner(currentAnalysisData') # r)]_vars

\* C6: when a run is Done, the record it stored contains its rhythm, pitch,
\* spectral, scale and similarity results.
C6_DoneExposesAggregate ==
    \A r \in Runs :
        (pc[r] = "done" /\ DataOwner(currentAnalysisData) = r)
            => {"rhythm", "pitches", "spectral", "scale", "similarity"}
                   \subseteq DOMAIN currentAnalysisData

\* C7: a run in which a stage threw ends Failed and its failure report names
\* the stage in which the fault originated.
C7_FailureTaggedWithStage ==
    \A r \in Runs :
        thrown[r].kind = "fault"
            => /\ outcome[r].kind = "Analysis Failed"
               /\ ReportedStage(outcome[r]) = thrown[r].stage

\* C8: the analysis window is the first min(totalSamples, floor(sr * 15))
\* samples of channel 0, from offset 0, and every stage reads inside it.
C8_WindowIsBoundedPrefix ==
    \A r \in Runs :
        pc[r] # "idle" =>
            LET total == audioBuffer[r].length
                sr == audioBuffer[r].sampleRate
                w == trimmedChannel[r].to
            IN  /\ trimmedChannel[r].from = 0
                /\ w <= total
                /\ w * sr.den <= sr.num * 15
                /\ w < total => (w + 1) * sr.den > sr.num * 15
                /\ \A rd \in reads[r] :
                      /\ trimmedChannel[r].from <= rd.range.from
                      /\ rd.range.to <= trimmedChannel[r].to

C8_Witness ==
    \E r \in Runs :
        /\ pc[r] = "done"
        /\ trimmedChannel[r].to < audioBuffer[r].length
        /\ audioBuffer[r].sampleRate.den > 1
        /\ {rd.stage : rd \in reads[r]} = {"Rhythm", "Pitch", "Spectral"}

\* C9: a run fails with EmptySignal exactly when its input has no samples,
\* and an input without samples never enters the Rhythm, Pitch or Spectral
\* stage.
C9_EmptySignalRejected ==
    \A r \in Runs :
        /\ (pc[r] # "idle" /\ audioBuffer[r].length = 0)
              => Range(log[r]) \cap {"Rhythm", "Pitch", "Spectral"} = {}
        /\ Ended(r)
              => ((outcome[r].message = "EmptySignal") <=> (audioBuffer[r].length = 0))

\* the frame that iteration k (from 0) of the pitch loop of run r reads
FrameOffset(k) == k * (4096 * 64)
FrameOf(r, k) ==
    [from |-> trimmedChannel[r].from + FrameOffset(k),
     to |-> trimmedChannel[r].from + FrameOffset(k) + 4096]

\* the iterations run r has completed whose detected frequency is in (0, 2000)
AcceptedFrames(r) ==
    {k \in 0..(frames[r] - 1) :
        /\ detectPitch(audioBuffer[r], FrameOf(r, k)) > 0
        /\ detectPitch(audioBuffer[r], FrameOf(r, k)) < 2000}

\* C12: pitches and timestamps have equal length; entry j is the frequency
\* detected in the j-th accepted frame (0 < f < 2000) of the frames processed
\* so far, with timestamp = that frame's offset / sample rate; rejected frames
\* add nothing and no stored value is outside (0, 2000).
C12_PitchSeriesIsAcceptedFrames ==
    \A r \in Runs :
        LET accepted == AcceptedFrames(r)
        IN  /\ Len(pitches[r]) = Len(timestamps[r])
            /\ Len(pitches[r]) = Cardinality(accepted)
            /\ \A j \in DOMAIN pitches[r] :
                  /\ pitches[r][j] > 0
                  /\ pitches[r][j] < 2000
                  /\ \E k \in accepted :
                        /\ Cardinality({a \in accepted : a < k}) = j - 1
                        /\ pitches[r][j] = detectPitch(audioBuffer[r], FrameOf(r, k))
                        /\ timestamps[r][j] =
                             [num |-> FrameOffset(k) * audioBuffer[r].sampleRate.den,
                              den |-> audioBuffer[r].sampleRate.num]

C12_Witness ==
    \E r \in Runs :
        /\ pc[r] = "done"
        /\ frames[r] = 20
        /\ Len(pitches[r]) > 1
        /\ Len(pitches[r]) < frames[r]
        /\ \E k \in 0..19 : detectPitch(audioBuffer[r], FrameOf(r, k)) = 2000
        /\ \E k \in 0..19 : detectPitch(audioBuffer[r], FrameOf(r, k)) > 2000
        /\ \E k \in 0..19 : detectPitch(audioBuffer[r], FrameOf(r, k)) < 0

\* C17: whatever the clip's length, a run processes at most 20 pitch frames
\* and at most 50 spectral windows, all of them inside the trimmed window of
\* at most 15 s, and no more frames than strides fit into that window.
C17_LoopsBoundedByCapsAndWindow ==
    \A r \in Runs :
        /\ frames[r] <= 20
        /\ windows[r] <= 50
        /\ ArrayLength(trimmedChannel[r]) * audioBuffer[r].sampleRate.den
              <= 15 * audioBuffer[r].sampleRate.num
        /\ frames[r] > 0 =>
              (frames[r] - 1) * (4096 * 64) + 4096 < ArrayLength(trimmedChannel[r])
        /\ windows[r] > 0 =>
              (windows[r] - 1) * (2048 * 32) + 2048 < ArrayLength(trimmedChannel[r])
        /\ \A rd \in reads[r] :
              rd.stage \in {"Pitch", "Spectral"} =>
                  /\ trimmedChannel[r].from <= rd.range.from
                  /\ rd.range.to <= trimmedChannel[r].to

C17_Witness ==
    \E r \in Runs :
        /\ pc[r] = "done"
        /\ frames[r] = 20
        /\ windows[r] = 50
        /\ ArrayLength(trimmedChannel[r]) < audioBuffer[r].length
        /\ 20 * (4096 * 64) + 4096 < ArrayLength(trimmedChannel[r])
        /\ 50 * (2048 * 32) + 2048 < ArrayLength(trimmedChannel[r])

\* C18: when cancel is clicked while a run is inside its pitch loop, the run
\* processes at most 5 more frames and never starts the Spectral, ScaleID or
\* CulturalMatch stage.
C18_CancelInPitchLoopStopsWithinInterval ==
    \A r \in Runs :
        framesAtCancel[r] >= 0 =>
            /\ frames[r] <= framesAtCancel[r] + 5
            /\ Range(log[r]) \cap {"Spectral", "ScaleID", "CulturalMatch"} = {}

\* C19: both loops suspend at fixed intervals: no step of a run processes
\* more than 5 pitch frames, and no step processes as many spectral windows
\* as the loop's cap allows in all (so the loop suspends after every K
\* windows for some K below the cap).
C19_BothLoopsYield ==
    [][\A r \in Runs :
          /\ frames'[r] - frames[r] <= 5
          /\ windows'[r] - windows[r] < 50]_vars

\* ------------------------------------------------------------------------
\* Properties of the scorer
\* ------------------------------------------------------------------------
Included == {topMatches[k].culture : k \in DOMAIN topMatches}

\* C10: the similarity result holds only records of the table with their own
\* score, every score greater than 0, at most topN (5) of them, and no record
\* left out has a higher score than one that is in.
C10_TopMatchesPositiveAndBest ==
    scorePhase = "scored" =>
        /\ Len(topMatches) <= 5
        /\ \A k \in DOMAIN topMatches :
              /\ topMatches[k].culture \in DOMAIN allCultures
              /\ topMatches[k].score = allScores[topMatches[k].culture]
              /\ topMatches[k].score > 0
        /\ \A k, j \in DOMAIN topMatches :
              k # j => topMatches[k].culture # topMatches[j].culture
        /\ \A i \in DOMAIN allCultures :
              i \notin Included =>
                  \A k \in DOMAIN topMatches : allScores[i] <= topMatches[k].score

C10_Witness ==
    /\ scorePhase = "scored"
    /\ Len(topMatches) = 5
    /\ \E i \in DOMAIN allCultures : i \notin Included /\ allScores[i] = 0
    /\ \E i \in DOMAIN allCultures : i \notin Included /\ allScores[i] > 0
    /\ topMatches[1].score > topMatches[5].score

\* the records with a positive score, each with its score
Positive(scores) ==
    {[culture |-> i, score |-> scores[i]] : i \in {j \in DOMAIN scores : scores[j] > 0}}

\* descending by score, records of equal score in table order
StablyOrdered(ms) ==
    \A k, j \in DOMAIN ms :
        k < j => \/ ms[k].score > ms[j].score
                 \/ ms[k].score = ms[j].score /\ ms[k].culture < ms[j].culture

\* C11: the similarity result of either scorer is ordered by descending
\* score, records of equal score staying in culture-table order, and is the
\* one sequence that the scores of the table determine: all the positive
\* records in that order, cut to the first 5 (file) or 3 (recording).
C11_OrderedAndDetermined ==
    /\ scorePhase = "scored" =>
          /\ StablyOrdered(culturalMatches)
          /\ Range(culturalMatches) = Positive(allScores)
          /\ topMatches = SubSeq(culturalMatches, 1, Min(5, Len(culturalMatches)))
    /\ recPhase = "scored" =>
          /\ StablyOrdered(matches)
          /\ Range(matches) = Positive(recScores)
          /\ recTopMatches = SubSeq(matches, 1, Min(3, Len(matches)))

C11_Witness ==
    /\ scorePhase = "scored"
    /\ recPhase = "scored"
    /\ Len(culturalMatches) > 5
    /\ \E k \in 2..4 : /\ topMatches[k].score = topMatches[k + 1].score
                        /\ topMatches[1].score > topMatches[k].score
    /\ Len(matches) > 3
    /\ recTopMatches[1].score > recTopMatches[2].score
    /\ recTopMatches[2].score = recTopMatches[3].score

\* the record's tempo string gives a midpoint
HasMidpoint(k) ==
    /\ Len(allCultures[k].tempo) >= 2
    /\ ~allCultures[k].tempo[1].nan
    /\ ~allCultures[k].tempo[2].nan

\* twice |tempo - midpoint of the record's tempo range|
TwiceDistance(k) ==
    LET lo == allCultures[k].tempo[1].val
        hi == allCultures[k].tempo[2].val
    IN  IF 2 * scoreRhythm.tempo >= lo + hi
        THEN 2 * scoreRhythm.tempo - (lo + hi)
        ELSE (lo + hi) - 2 * scoreRhythm.tempo

\* every tempo bonus is one of 0, 1, 2, 3 and a record nearer in tempo never
\* has the smaller bonus
TieredAndMonotone(parts) ==
    /\ \A k \in DOMAIN parts : parts[k].tempo \in {0, 1, 2, 3}
    /\ \A j, k \in DOMAIN parts :
          (HasMidpoint(j) /\ HasMidpoint(k) /\ TwiceDistance(j) <= TwiceDistance(k))
              => parts[j].tempo >= parts[k].tempo

\* C15: in both scorers the tempo contribution of a record is exactly one of
\* 3, 2, 1, 0, fixed by |tempo - midpoint|, and monotone: a smaller tempo
\* difference never yields a smaller bonus than a larger one.
C15_TempoBonusTieredAndMonotone ==
    /\ scorePhase = "scored" => TieredAndMonotone(scoreParts)
    /\ recPhase = "scored" => TieredAndMonotone(recParts)

C15_Witness ==
    /\ scorePhase = "scored"
    /\ recPhase = "scored"
    /\ HasMidpoint(1)
    /\ HasMidpoint(2)
    /\ TwiceDistance(1) = 2 * 15
    /\ scoreParts[1].tempo = 2
    /\ recParts[1].tempo = 3
    /\ TwiceDistance(2) > 2 * 50
    /\ scoreParts[2].tempo = 0
    /\ recParts[2].tempo = 1

\* C16: the rhythm-descriptor contribution of a record is +2 (regularity
\* above 0.7 and a descriptor of steadiness) plus +3 (polyrhythmic flag and a
\* descriptor of complexity): always one of 0, 2, 3, 5.
C16_RhythmBonusIsOneOf0235 ==
    scorePhase = "scored" =>
        \A k \in DOMAIN scoreParts : scoreParts[k].rhythm \in {0, 2, 3, 5}

\* ------------------------------------------------------------------------
\* Properties of the pitch summary
\* ------------------------------------------------------------------------
Undefined(field) == field.text \in {"N/A", "undefined"}

\* C13: for an empty series, what displayPitchAnalysis and the report show
\* as mean, range and variation is "N/A" or undefined, never digits or a
\* non-finite value.
C13_EmptySeriesReportedAsUndefined ==
    summaryPitches = <<>> =>
        /\ pitchInfo # Null =>
              /\ Undefined(pitchInfo.average)
              /\ Undefined(pitchInfo.rangeLow)
              /\ Undefined(pitchInfo.rangeHigh)
              /\ Undefined(pitchInfo.variation)
        /\ reportText # Null =>
              /\ Undefined(reportText.average)
              /\ Undefined(reportText.rangeLow)
              /\ Undefined(reportText.rangeHigh)

\* ------------------------------------------------------------------------
\* Properties of the service worker
\* ------------------------------------------------------------------------
\* C14: once the worker is installed and activated, a navigation request made
\* while the network is unavailable is answered with a cached page, never
\* with an undefined response.
C14_OfflineNavigationServedFromCache ==
    (/\ swState = "activated"
     /\ lastResponse.mode = "navigate"
     /\ lastResponse.offline)
        => lastResponse.kind = "cached"

\* ------------------------------------------------------------------------
\* Properties of the spectral features
\* ------------------------------------------------------------------------
NonNegativeMagnitudes ==
    \A k \in DOMAIN avgSpectrum : avgSpectrum[k].kind = "finite"

\* twice the magnitude of bin k, a whole number for the magnitudes above
TwiceMagnitude(k) == (2 * avgSpectrum[k].num) \div avgSpectrum[k].den

RECURSIVE SumTwice(_)
SumTwice(k) == IF k > Len(avgSpectrum) THEN 0 ELSE TwiceMagnitude(k) + SumTwice(k + 1)

\* the sum over the bins of index * magnitude, doubled
RECURSIVE SumIndexTwice(_)
SumIndexTwice(k) ==
    IF k > Len(avgSpectrum) THEN 0
    ELSE (k - 1) * TwiceMagnitude(k) + SumIndexTwice(k + 1)

\* C20: for an averaged spectrum of non-negative magnitudes the centroid is
\* sum(binFreq * mag) / sum(mag), with binFreq = i * sampleRate / (2 * bins),
\* when the total magnitude is positive and 0 when it is 0, and brightness =
\* centroid / (sampleRate / 2) lies in [0, 1].
C20_CentroidAndBrightness ==
    (spectralAnalysis # Null /\ NonNegativeMagnitudes) =>
        /\ spectralAnalysis.centroid =
              IF SumTwice(1) > 0
              THEN Reduced(Fin(spectrumRate.num * SumIndexTwice(1),
                               2 * Len(avgSpectrum) * spectrumRate.den * SumTwice(1)))
              ELSE Fin(0, 1)
        /\ spectralAnalysis.brightness.kind = "finite"
        /\ spectralAnalysis.brightness.num >= 0
        /\ spectralAnalysis.brightness.num <= spectralAnalysis.brightness.den

C20_Witness ==
    /\ spectralAnalysis # Null
    /\ NonNegativeMagnitudes
    /\ Len(avgSpectrum) = 3
    /\ avgSpectrum[1].num = 0
    /\ avgSpectrum[2] = Fin(1, 2)
    /\ avgSpectrum[3] = Fin(3, 1)
    /\ spectrumRate.den = 2
    /\ 2 * spectralAnalysis.brightness.num > spectralAnalysis.brightness.den
    /\ spectralAnalysis.brightness.num < spectralAnalysis.brightness.den

\* twice the magnitude of bins 1..k
RECURSIVE CumulativeTwice(_)
CumulativeTwice(k) == IF k = 0 THEN 0 ELSE TwiceMagnitude(k) + CumulativeTwice(k - 1)

\* the bins at which the cumulative magnitude has reached 85% of the total
ReachedBins ==
    {k \in DOMAIN avgSpectrum : 100 * CumulativeTwice(k) >= 85 * SumTwice(1)}

\* C21: for an averaged spectrum of magnitudes the rolloff is the frequency
\* i * sampleRate / (2 * bins) of the lowest bin index i at which the
\* cumulative magnitude of bins 0..i reaches 85% of the total, and it is 0 for
\* an all-zero spectrum.
C21_RolloffIsLowestBinAt85Percent ==
    (spectralAnalysis # Null /\ NonNegativeMagnitudes) =>
        /\ ReachedBins # {}
        /\ LET first == CHOOSE k \in ReachedBins : \A j \in ReachedBins : k <= j
           IN  spectralAnalysis.rolloff =
                  Reduced(Fin((first - 1) * spectrumRate.num,
                              2 * Len(avgSpectrum) * spectrumRate.den))
        /\ SumTwice(1) = 0 => spectralAnalysis.rolloff = Fin(0, 1)

C21_Witness ==
    /\ spectralAnalysis # Null
    /\ NonNegativeMagnitudes
    /\ Len(avgSpectrum) = 3
    /\ avgSpectrum[1] = Fin(1, 2)
    /\ avgSpectrum[2] = Fin(3, 1)
    /\ avgSpectrum[3].num = 0
    /\ spectralAnalysis.rolloff = Reduced(Fin(spectrumRate.num, 6 * spectrumRate.den))

Finite(x) == x.kind = "finite" /\ x.num >= 0

\* C22: whatever the window, what analyzeSpectrum returns is finite and not
\* negative: every entry of the averaged magnitude vector, the centroid, the
\* rolloff and the brightness.
C22_SpectralValuesFinite ==
    spectralAnalysis # Null =>
        /\ \A k \in DOMAIN spectralAnalysis.spectrum :
              Finite(spectralAnalysis.spectrum[k])
        /\ Finite(spectralAnalysis.centroid)
        /\ Finite(spectralAnalysis.rolloff)
        /\ Finite(spectralAnalysis.brightness)

\* the MIDI note of entry k of the series and the number of its occurrences
NoteAt(k) == frequencyToMidiNote(Fin(summaryPitches[k], 1)).num
Occurrences(m) == Cardinality({k \in DOMAIN summaryPitches : NoteAt(k) = m})

\* the entries whose note has the highest count
MostFrequentEntries ==
    {k \in DOMAIN summaryPitches :
        \A j \in DOMAIN summaryPitches : Occurrences(NoteAt(k)) >= Occurrences(NoteAt(j))}

\* C23: the most common note shown is the MIDI note with the highest count,
\* and among notes sharing the highest count the one seen first in the series.
C23_MostCommonNoteFirstSeen ==
    (pitchInfo # Null /\ summaryPitches # <<>>) =>
        LET first == CHOOSE k \in MostFrequentEntries :
                        \A j \in MostFrequentEntries : k <= j
        IN  /\ pitchInfo.mostCommonNote.text = "note"
            /\ pitchInfo.mostCommonNote.note = midiToNoteName(Fin(NoteAt(first), 1))

\* ------------------------------------------------------------------------
\* The results page: setupDownloadButtons, the download controls and the
\* teacher dashboard (src/src/index.js)
\* ------------------------------------------------------------------------
\* analyses in one behaviour, and events kept in one session
MaxAnalyses == 3
MaxEvents == 2

DownloadControls ==
    {"download-pitch-chart", "download-rhythm-chart", "download-spectral-chart",
     "download-analysis-data", "download-full-report"}

\* e.target.id of a click anywhere in the document
ClickTargets == DownloadControls \cup {"cancel-analysis-btn"}

\* downloads made by downloadChart(chart, filename)
downloadChart(chart) == IF ~chart THEN 0 ELSE 1

\* downloads made by downloadJSON(data, filename) of games.js
downloadJSON(data) == 1

\* downloads made by generateAnalysisReport()
generateAnalysisReportDownloads == IF currentAnalysisData = Null THEN 0 ELSE 1

\* downloads made by one call of the listener of setupDownloadButtons
DownloadListener(target) ==
    CASE target = "download-pitch-chart"    -> downloadChart(pitchChart)
      [] target = "download-rhythm-chart"   -> downloadChart(rhythmChart)
      [] target = "download-spectral-chart" -> downloadChart(spectralChart)
      [] target = "download-analysis-data"  -> downloadJSON(currentAnalysisData)
      [] target = "download-full-report"    -> generateAnalysisReportDownloads
      [] OTHER -> 0

\* a listener added by every call
setupDownloadButtons_Unguarded ==
    /\ clickListeners' = clickListeners + 1
    /\ downloadListenersInitialized' = TRUE

setupDownloadButtons ==
    IF downloadListenersInitialized
    THEN UNCHANGED <<downloadListenersInitialized, clickListeners>>
    ELSE /\ clickListeners' = clickListeners + 1
         /\ downloadListenersInitialized' = TRUE

\* the end of the try block of analyzeAudioFile: the aggregate is stored, the
\* display functions set the three charts, the download controls are set up
CompleteAnalysis ==
    /\ analysesCompleted < MaxAnalyses
    /\ currentAnalysisData' = [null |-> FALSE]
    /\ pitchChart' = TRUE
    /\ rhythmChart' = TRUE
    /\ spectralChart' = TRUE
    /\ setupDownloadButtons
    /\ analysesCompleted' = analysesCompleted + 1
    /\ completedInSession' =
           IF dashboardSession = Null THEN completedInSession
           ELSE completedInSession + 1
    /\ UNCHANGED <<lastClick, dashboardSession, notPage>>

\* a click in the document: every registered listener runs once
ClickDownload(target) ==
    /\ lastClick' = [target |-> target,
                     downloads |-> clickListeners * DownloadListener(target),
                     completed |-> analysesCompleted]
    /\ UNCHANGED <<downloadListenersInitialized, clickListeners, pitchChart,
                   rhythmChart, spectralChart, analysesCompleted,
                   currentAnalysisData, dashboardVars, notPage>>

\* the click listener of start-session-btn
StartSession ==
    /\ dashboardSession' = [tracksAnalyzed |-> 0, gamesPlayed |-> 0,
                            quizzesTaken |-> 0, events |-> <<>>]
    /\ completedInSession' = 0
    /\ UNCHANGED <<downloadVars, currentAnalysisData, notPage>>

\* the click listener of clear-session-btn, confirmed
ClearSession ==
    /\ dashboardSession # Null
    /\ dashboardSession' = Null
    /\ completedInSession' = 0
    /\ UNCHANGED <<downloadVars, currentAnalysisData, notPage>>

\* the value of dashboardSession after trackDashboardActivity(type)
trackDashboardActivity(session, type) ==
    IF session = Null THEN session
    ELSE [session EXCEPT
            !.tracksAnalyzed = IF type = "analyze" THEN @ + 1 ELSE @,
            !.gamesPlayed = IF type = "analyze" THEN @
                            ELSE IF type = "game" THEN @ + 1 ELSE @,
            !.quizzesTaken = IF type \in {"analyze", "game"} THEN @
                             ELSE IF type = "quiz" THEN @ + 1 ELSE @,
            !.events = Append(@, type)]

\* the callers of trackDashboardActivity: the start buttons of the rhythm
\* game ('game'), the quiz and the extended quiz ('quiz')
StartActivity(type) ==
    /\ dashboardSession # Null => Len(dashboardSession.events) < MaxEvents
    /\ dashboardSession' = trackDashboardActivity(dashboardSession, type)
    /\ dashboardSession' # dashboardSession
    /\ UNCHANGED <<completedInSession, downloadVars, currentAnalysisData, notPage>>

InitPage ==
    /\ InitRun
    /\ ScoreOff
    /\ SummaryOff
    /\ SWOff
    /\ SpectrumOff
    /\ PageOff

NextPage ==
    \/ CompleteAnalysis
    \/ \E target \in ClickTargets : ClickDownload(target)
    \/ StartSession
    \/ ClearSession
    \/ \E type \in {"game", "quiz"} : StartActivity(type)

SpecPage == InitPage /\ [][NextPage]_vars

\* C24: however many analyses completed, one document click listener is
\* registered for the download controls, and a click on a download control
\* after a completed analysis makes exactly one download.
C24_OneDownloadPerClick ==
    /\ clickListeners <= 1
    /\ (lastClick.target \in DownloadControls /\ lastClick.completed >= 1)
           => lastClick.downloads = 1

\* a download control clicked after the last of several analyses
C24_Witness ==
    /\ analysesCompleted = MaxAnalyses
    /\ lastClick.completed = MaxAnalyses
    /\ lastClick.target = "download-full-report"
    /\ lastClick.downloads = 1

\* the 'analyze' events of the session
AnalyzeEvents ==
    {k \in DOMAIN dashboardSession.events : dashboardSession.events[k] = "analyze"}

\* C26: while a dashboard session is active, tracksAnalyzed and the number
\* of 'analyze' events equal the number of analyses completed in the session.
C26_TracksAnalyzedCountsCompleted ==
    dashboardSession # Null =>
        /\ dashboardSession.tracksAnalyzed = completedInSession
        /\ Cardinality(AnalyzeEvents) = completedInSession

\* ------------------------------------------------------------------------
\* The upload handler: the change listener of the file input and
\* decodeAudioBuffer (src/src/index.js)
\* ------------------------------------------------------------------------
\* src/src/index.js:756
maxSize == 100 * 1024 * 1024

\* bytes of the header that decodeAudioBuffer views
headerBytes == 12

\* the files selected: a file shorter than the header, one file of each
\* format the handler tells apart, a file of exactly the size limit and one
\* of a byte more
Files ==
    { [size |-> 5,           format |-> "wav"],
      [size |-> 1000,        format |-> "wav"],
      [size |-> 1000,        format |-> "mp3"],
      [size |-> 1000,        format |-> "m4a"],
      [size |-> 1000,        format |-> "ogg"],
      [size |-> maxSize,     format |-> "wav"],
      [size |-> maxSize + 1, format |-> "wav"] }

\* no file is too large
TooLarge_Never(file) == FALSE

\* src/src/index.js:757
TooLarge(file) == file.size > maxSize

\* the Error rethrown by the catch of the decode
DecodeErrorMessage(file) ==
    CASE file.format = "mp3" -> "MP3 format detected"
      [] file.format = "m4a" -> "M4A format detected"
      [] file.format = "wav" -> "WAV file decode failed"
      [] OTHER -> "Unable to decode audio"

\* innerHTML of #analysis-results set by upload u
Shows(u, view, message) ==
    analysisResults' = [view |-> view, run |-> u, message |-> message]

\* the catch of the handler: the Analysis Failed display
UploadFails(u, message) ==
    /\ Shows(u, "Analysis Failed", message)
    /\ uploadPc' = [uploadPc EXCEPT ![u] = "failed"]
    /\ uploadOutcome' = [uploadOutcome EXCEPT ![u] = "Analysis Failed"]

\* the handler up to its first await
ChangeEvent(u, file) ==
    /\ uploadPc[u] = "idle"
    /\ uploadFile' = [uploadFile EXCEPT ![u] = file]
    /\ IF file = NoFile
       THEN /\ uploadPc' = [uploadPc EXCEPT ![u] = "returned"]
            /\ UNCHANGED <<analysisResults, uploadOutcome>>
       ELSE IF TooLarge(file)
       THEN UploadFails(u, "File is too large")
       ELSE /\ Shows(u, "LOADING FILE", "")
            /\ uploadPc' = [uploadPc EXCEPT ![u] = "w762"]
            /\ uploadOutcome' = [uploadOutcome EXCEPT ![u] = "LOADING FILE"]
    /\ UNCHANGED <<decodeState, timerState, timedOut, analyzeCalled,
                   audioContextState, notUpload>>

\* file.arrayBuffer() settles
ArrayBufferSettles(u, read) ==
    /\ uploadPc[u] = "w762"
    /\ IF read
       THEN /\ Shows(u, "DECODING AUDIO", "")
            /\ uploadPc' = [uploadPc EXCEPT ![u] = "w767"]
            /\ uploadOutcome' = [uploadOutcome EXCEPT ![u] = "DECODING AUDIO"]
       ELSE UploadFails(u, "The requested file could not be read")
    /\ UNCHANGED <<uploadFile, decodeState, timerState, timedOut, analyzeCalled,
                   audioContextState, notUpload>>

\* lines 795-797: the message before the decode and the 200 ms wait
BeforeDecode(u) ==
    /\ Shows(u, "Calling decode function", "")
    /\ uploadPc' = [uploadPc EXCEPT ![u] = "w797"]
    /\ uploadOutcome' = [uploadOutcome EXCEPT ![u] = "Calling decode function"]

\* the 100 ms wait is over: resume a suspended AudioContext
AfterDecodingMessage(u) ==
    /\ uploadPc[u] = "w767"
    /\ IF audioContextState = "suspended"
       THEN /\ uploadPc' = [uploadPc EXCEPT ![u] = "w774"]
            /\ UNCHANGED <<analysisResults, uploadOutcome>>
       ELSE BeforeDecode(u)
    /\ UNCHANGED <<uploadFile, decodeState, timerState, timedOut, analyzeCalled,
                   audioContextState, notUpload>>

\* the race of resume() and the 2 s timer settles: the handler goes on
\* whatever the result
ResumeSettles(u, result) ==
    /\ uploadPc[u] = "w774"
    /\ audioContextState' =
           IF result = "resumed" THEN "running" ELSE audioContextState
    /\ BeforeDecode(u)
    /\ UNCHANGED <<uploadFile, decodeState, timerState, timedOut, analyzeCalled,
                   notUpload>>

\* the 200 ms wait is over: decodeAudioBuffer(arrayBuffer, file) is called.
\* new Uint8Array(arrayBuffer, 0, 12) throws on a shorter buffer, which rejects
\* the promise returned; otherwise the timer and the decode are started.
CallDecode(u) ==
    /\ uploadPc[u] = "w797"
    /\ IF uploadFile[u].size < headerBytes
       THEN /\ UploadFails(u, DecodeErrorMessage(uploadFile[u]))
            /\ decodeState' = [decodeState EXCEPT ![u] = "not started"]
            /\ UNCHANGED timerState
       ELSE /\ uploadPc' = [uploadPc EXCEPT ![u] = "w800"]
            /\ decodeState' = [decodeState EXCEPT ![u] = "pending"]
            /\ timerState' = [timerState EXCEPT ![u] = "armed"]
            /\ UNCHANGED <<analysisResults, uploadOutcome>>
    /\ UNCHANGED <<uploadFile, timedOut, analyzeCalled, audioContextState,
                   notUpload>>

\* decodeAudioData settles.  It settles the race when the timer has not.
DecodeSettles(u, decoded) ==
    /\ decodeState[u] = "pending"
    /\ decodeState' = [decodeState EXCEPT ![u] =
                           IF decoded THEN "resolved" ELSE "rejected"]
    /\ IF uploadPc[u] # "w800"
       THEN UNCHANGED <<analysisResults, uploadPc, uploadOutcome>>
       ELSE IF decoded
       THEN /\ Shows(u, "STARTING ANALYSIS", "")
            /\ uploadPc' = [uploadPc EXCEPT ![u] = "w825"]
            /\ uploadOutcome' = [uploadOutcome EXCEPT ![u] = "STARTING ANALYSIS"]
       ELSE UploadFails(u, DecodeErrorMessage(uploadFile[u]))
    /\ UNCHANGED <<uploadFile, timerState, timedOut, analyzeCalled,
                   audioContextState, notUpload>>

\* the 5 s timer fires.  It settles the race when the decode has not.
TimerFires(u) ==
    /\ timerState[u] = "armed"
    /\ timerState' = [timerState EXCEPT ![u] = "fired"]
    /\ timedOut' = [timedOut EXCEPT ![u] = decodeState[u] = "pending"]
    /\ IF uploadPc[u] # "w800"
       THEN UNCHANGED <<analysisResults, uploadPc, uploadOutcome>>
       ELSE UploadFails(u, DecodeErrorMessage(uploadFile[u]))
    /\ UNCHANGED <<uploadFile, decodeState, analyzeCalled, audioContextState,
                   notUpload>>

\* the 100 ms wait is over: the audio player is made and analyzeAudioFile
\* is called
CallAnalyze(u) ==
    /\ uploadPc[u] = "w825"
    /\ analyzeCalled' = [analyzeCalled EXCEPT ![u] = TRUE]
    /\ uploadPc' = [uploadPc EXCEPT ![u] = "w836"]
    /\ UNCHANGED <<analysisResults, uploadFile, decodeState, timerState,
                   timedOut, uploadOutcome, audioContextState, notUpload>>

\* analyzeAudioFile, which catches what its stages throw, returns
AnalyzeReturns(u) ==
    /\ uploadPc[u] = "w836"
    /\ uploadPc' = [uploadPc EXCEPT ![u] = "done"]
    /\ uploadOutcome' = [uploadOutcome EXCEPT ![u] = "analysed"]
    /\ UNCHANGED <<analysisResults, uploadFile, decodeState, timerState,
                   timedOut, analyzeCalled, audioContextState, notUpload>>

InitUpload ==
    /\ InitRun
    /\ ScoreOff
    /\ SummaryOff
    /\ SWOff
    /\ SpectrumOff
    /\ DownloadOff
    /\ DashboardOff
    /\ QuizOff
    /\ uploadPc = [u \in Uploads |-> "idle"]
    /\ uploadFile = [u \in Uploads |-> NoFile]
    /\ decodeState = [u \in Uploads |-> "none"]
    /\ timerState = [u \in Uploads |-> "none"]
    /\ timedOut = [u \in Uploads |-> FALSE]
    /\ analyzeCalled = [u \in Uploads |-> FALSE]
    /\ uploadOutcome = [u \in Uploads |-> "none"]
    /\ audioContextState \in {"suspended", "running"}

NextUpload ==
    \E u \in Uploads :
        \/ \E file \in Files \cup {NoFile} : ChangeEvent(u, file)
        \/ \E read \in BOOLEAN : ArrayBufferSettles(u, read)
        \/ AfterDecodingMessage(u)
        \/ \E result \in {"resumed", "rejected", "timeout"} : ResumeSettles(u, result)
        \/ CallDecode(u)
        \/ \E decoded \in BOOLEAN : DecodeSettles(u, decoded)
        \/ TimerFires(u)
        \/ CallAnalyze(u)
        \/ AnalyzeReturns(u)

SpecUpload == InitUpload /\ [][NextUpload]_vars

\* the file of upload u did not pass the size check or was not decoded in
\* time: too large, the decode failed, or the decode was pending at 5 s
NotDecoded(u) ==
    \/ uploadFile[u].size > 100 * 1024 * 1024
    \/ decodeState[u] \in {"rejected", "not started"}
    \/ timedOut[u]

\* C25: for a file that is too large, whose decode fails or whose decode
\* has not completed when the 5 s timer fires, analyzeAudioFile is never
\* called and the handler ends in the Analysis Failed display.
C25_OnlyDecodedFilesAnalysed ==
    \A u \in Uploads :
        NotDecoded(u) =>
            /\ ~analyzeCalled[u]
            /\ uploadPc[u] = "failed"
            /\ uploadOutcome[u] = "Analysis Failed"

\* a decode that resolves after the timer fired, and a file over the limit
C25_Witness ==
    /\ timedOut[1] /\ decodeState[1] = "resolved" /\ uploadPc[1] = "failed"
    /\ uploadFile[2].size > 100 * 1024 * 1024 /\ uploadPc[2] = "failed"

\* the awaits whose continuation begins with a test of analysisCancelled
\* (lines 939, 961 and 992)
BeforeCheck == {"w936", "w958", "w989"}

\* C27: a cancel request made during a run is not lost through the shared
\* flag: a run during which cancel was clicked, suspended before a cancel
\* check, throws the cancellation when it takes its next step, whatever other
\* runs started in between.
C27_RequestReachesNextCheck ==
    [][\A r \in Runs :
          (/\ pc[r] \in BeforeCheck
           /\ cancelRequestedIn[r] # {}
           /\ pc'[r] # pc[r])
              => thrown'[r].kind = "cancel"]_vars

\* C28: every response the service worker has stored or is storing in a
\* cache has status 200 and answers a GET request, and a request that is not
\* a GET is never answered by the worker.
C28_OnlyGet200Stored ==
    /\ \A put \in stored \cup pendingPuts :
          put.status = "200" /\ put.method = "GET"
    /\ lastResponse.method \notin {"GET", ""} => lastResponse.kind = "not handled"

\* both caches written, a 404 answered before, and a POST passed by
C28_Witness ==
    /\ \E put \in stored : put.cache = CACHE_NAME
    /\ \E put \in stored : put.cache = RUNTIME_CACHE /\ put.url = "/main.js"
    /\ lastResponse.method = "POST"
    /\ lastResponse.kind = "not handled"
    /\ ~CachesMatch("/about.html")

\* ------------------------------------------------------------------------
\* The quizzes: initializeQuiz and initializeExtendedQuiz (src/src/index.js)
\* ------------------------------------------------------------------------
\* clicks on answer buttons in one behaviour
MaxClicks == 6

\* the questions of initializeQuiz, lines 1962-1978: their correct options
questions == <<0, 1, 1>>

\* the options of a question
Options == 0..3

\* questions.length
QuizLength(kind) == IF kind = "culture" THEN Len(questions) ELSE extendedQuestions

\* q.correct of question number q (counted from 0)
Correct(kind, q) == IF kind = "culture" THEN questions[q + 1] ELSE q % 4

\* whether the click listener of an answer button disables the buttons:
\* line 3004 of initializeExtendedQuiz; initializeQuiz has no such line
DisablesButtons(kind) == kind = "extended"

RECURSIVE Total(_, _)
Total(f, n) == IF n < 0 THEN 0 ELSE f[n] + Total(f, n - 1)

\* showQuestion() with currentQuestion = cq
showQuestion(cq) ==
    IF cq >= QuizLength(quizKind)
    THEN /\ quizView' = "complete"
         /\ UNCHANGED <<shownQuestion, shows>>
         /\ buttonsDisabled' = FALSE
    ELSE /\ quizView' = "question"
         /\ shownQuestion' = cq
         /\ shows' = [shows EXCEPT ![cq] = @ + 1]
         /\ buttonsDisabled' = FALSE

\* the click listener of the start button, which hides the button
StartQuiz ==
    /\ quizView = "hidden"
    /\ showQuestion(currentQuestion)
    /\ UNCHANGED <<quizKind, currentQuestion, quizScore, quizTimers, answers,
                   notQuiz>>

\* the click listener of the answer button of option answer.  A disabled
\* button receives no click.
ClickAnswer(answer) ==
    /\ quizView = "question"
    /\ ~buttonsDisabled
    /\ Total(answers, extendedQuestions - 1) < MaxClicks
    /\ quizScore' = IF answer = Correct(quizKind, shownQuestion)
                    THEN quizScore + 1 ELSE quizScore
    /\ answers' = [answers EXCEPT ![shownQuestion] = @ + 1]
    /\ buttonsDisabled' = DisablesButtons(quizKind)
    /\ quizTimers' = quizTimers + 1
    /\ UNCHANGED <<quizKind, quizView, currentQuestion, shownQuestion, shows,
                   notQuiz>>

\* a callback of setTimeout runs: the next question
NextQuestion ==
    /\ quizTimers > 0
    /\ quizTimers' = quizTimers - 1
    /\ currentQuestion' = currentQuestion + 1
    /\ showQuestion(currentQuestion + 1)
    /\ UNCHANGED <<quizKind, quizScore, answers, notQuiz>>

InitQuiz ==
    /\ InitRun
    /\ ScoreOff
    /\ SummaryOff
    /\ SWOff
    /\ SpectrumOff
    /\ DownloadOff
    /\ DashboardOff
    /\ UploadOff
    /\ quizKind \in {"culture", "extended"}
    /\ quizView = "hidden"
    /\ currentQuestion = 0
    /\ quizScore = 0
    /\ shownQuestion = 0
    /\ buttonsDisabled = FALSE
    /\ quizTimers = 0
    /\ answers = [q \in QuestionIds |-> 0]
    /\ shows = [q \in QuestionIds |-> 0]

NextQuiz ==
    \/ StartQuiz
    \/ \E answer \in Options : ClickAnswer(answer)
    \/ NextQuestion

SpecQuiz == InitQuiz /\ [][NextQuiz]_vars

\* C29: in either quiz, whatever the clicks, each question is answered at
\* most once and shown at most once, exactly once when the quiz is complete,
\* and the score never exceeds the number of questions.
C29_EachQuestionOnce ==
    /\ \A q \in QuestionIds : answers[q] <= 1 /\ shows[q] <= 1
    /\ (quizView = "complete" /\ quizTimers = 0) =>
           \A q \in 0..(QuizLength(quizKind) - 1) : shows[q] = 1
    /\ quizScore <= QuizLength(quizKind)

\* C30: a displayed match score is at most the maximum it is displayed
\* against: at most 10 for the scorer of the file analysis ('score/10'), at
\* most 7 for the scorer of the recording ('score/7').
C30_ScoreWithinDisplayedMaximum ==
    /\ \A k \in DOMAIN topMatches : topMatches[k].score <= 10
    /\ \A k \in DOMAIN recTopMatches : recTopMatches[k].score <= 7

====
